---- MODULE Spec2Model ----
(***************************************************************************)
(* Model of the job scraper (class JobScraper): the extraction and         *)
(* normalisation pipeline of parseJobsFromHTML, the record validator, the  *)
(* relative-time token pool, the fingerprint, the in-batch dedup and the   *)
(* store requests of insertJobsToSupabase, and the run loop that feeds one *)
(* fetched document per service through them, to the store, the Spark      *)
(* alert and the file sinks.                                               *)
(*                                                                         *)
(* JavaScript strings are sequences of one-character strings, so that      *)
(* length, substring search, lower-casing, regular-expression matching and *)
(* base64 encoding are computed and not assumed.  The empty sequence is    *)
(* the empty string; for found_time and _lastTimeString it also stands for *)
(* "undefined" (both are falsy, and a token of the pool is never empty).   *)
(***************************************************************************)
EXTENDS Integers, Sequences, FiniteSets, TLC

VARIABLES
    envMaxHours,        \* process.env.MAX_HOURS: [set, value]
    clock,              \* the instant new Date() reads: [year, month, day, hours, minutes]
    maxHoursWindow,     \* this.maxHoursWindow
    services,           \* this.services (the enabled descriptors)
    availableTimes,     \* this._availableTimes
    timeIndex,          \* this._timeIndex
    lastTimeString,     \* this._lastTimeString
    pc,                 \* position of run()
    svc,                \* run(): the loop variable i, counted from 1
    html,               \* run(): the document fetched for services[svc]
    jobElements,        \* parseJobsFromHTML: the containers of the winning selector group
    elem,               \* parseJobsFromHTML: the loop variable i, counted from 0
    serviceJobs,        \* parseJobsFromHTML: the qualified records so far
    extracted,          \* per processed container: the jobData extracted, whether the
                        \* extraction error was logged, whether it passed validation
    result,             \* the value parseJobsFromHTML returned
    allJobs,            \* run(): allJobs
    perServiceSummary,  \* run(): perServiceSummary
    inserted,           \* run(): what insertJobsToSupabase did in this iteration
    saved,              \* the calls of saveResults and saveCombinedResults, with the
                        \* files each one wrote
    notifications,      \* the messages posted to the ntfy topic
    runError,           \* the function whose exception reached the catch of run ("": none)
    fnArgs,             \* pure-function harness: the arguments drawn
    fnRet               \* pure-function harness: the value returned

vars == <<envMaxHours, clock, maxHoursWindow, services, availableTimes, timeIndex,
          lastTimeString, pc, svc, html, jobElements, elem, serviceJobs, extracted,
          result, allJobs, perServiceSummary, inserted, saved, notifications, runError,
          fnArgs, fnRet>>

runVars == <<envMaxHours, clock, maxHoursWindow, services, availableTimes, timeIndex,
             lastTimeString, pc, svc, html, jobElements, elem, serviceJobs, extracted,
             result, allJobs, perServiceSummary, inserted, saved, notifications, runError>>

-----------------------------------------------------------------------------
(* Bounds of the model.                                                    *)

MaxContainers == 3      \* containers matched by one selector group
MaxTimes == 2           \* relative-time tokens in one document
MaxFnHours == 8         \* largest N of the "N hours ago" tokens the harness draws
MaxLocation == 5        \* characters of a location text the harness draws

-----------------------------------------------------------------------------
(* Characters and strings.                                                 *)

\* The printable ASCII characters in code order, from 32 (space) to 126 (~);
\* the backslash (92) and the backquote (96) are written U+005C and U+0060.
ASCII ==
    <<" ", "!", "\"", "#", "$", "%", "&", "'", "(", ")", "*", "+", ",", "-", ".", "/",
      "0", "1", "2", "3", "4", "5", "6", "7", "8", "9", ":", ";", "<", "=", ">", "?",
      "@", "A", "B", "C", "D", "E", "F", "G", "H", "I", "J", "K", "L", "M", "N", "O",
      "P", "Q", "R", "S", "T", "U", "V", "W", "X", "Y", "Z", "[", "U+005C", "]", "^", "_",
      "U+0060", "a", "b", "c", "d", "e", "f", "g", "h", "i", "j", "k", "l", "m", "n", "o",
      "p", "q", "r", "s", "t", "u", "v", "w", "x", "y", "z", "{", "|", "}", "~">>

\* The bullet character U+2022 that separates a location from its addendum.
Bullet == "U+2022"

CharCode == [c \in {ASCII[i] : i \in 1..Len(ASCII)} |->
                31 + (CHOOSE i \in 1..Len(ASCII) : ASCII[i] = c)]

\* UTF-8 bytes of one character (Buffer.from's default encoding).
Utf8Char(c) == IF c = Bullet THEN <<226, 128, 162>> ELSE <<CharCode[c]>>

RECURSIVE Utf8(_)
Utf8(s) == IF s = <<>> THEN <<>> ELSE Utf8Char(Head(s)) \o Utf8(Tail(s))

IsDigit(c) == c \in {"0", "1", "2", "3", "4", "5", "6", "7", "8", "9"}
DigitVal(c) == CharCode[c] - 48
DigitChar(n) == ASCII[n + 17]
\* \s of a JavaScript regular expression, for the characters of the model.
IsSpace(c) == c = " "

\* String.prototype.toLowerCase, character by character.
LowerChar(c) ==
    IF c # Bullet /\ CharCode[c] >= 65 /\ CharCode[c] <= 90
    THEN ASCII[CharCode[c] + 32 - 31] ELSE c
toLowerCase(s) == [i \in 1..Len(s) |-> LowerChar(s[i])]

\* Does `word` occur in s at position p (counted from 1)?
OccursAt(s, word, p) ==
    /\ p + Len(word) - 1 <= Len(s)
    /\ \A k \in 1..Len(word) : s[p + k - 1] = word[k]

\* String.prototype.includes.
includes(s, word) == \E p \in 1..(Len(s) + 1) : OccursAt(s, word, p)

\* parseInt of a run of decimal digits.
RECURSIVE parseInt(_)
parseInt(ds) ==
    IF ds = <<>> THEN 0
    ELSE 10 * parseInt(SubSeq(ds, 1, Len(ds) - 1)) + DigitVal(ds[Len(ds)])

\* String(n).padStart(2, '0') and the four digits of a year.
Pad2(n) == IF n < 10 THEN <<"0", DigitChar(n)>>
           ELSE <<DigitChar(n \div 10), DigitChar(n % 10)>>
Digits4(n) == <<DigitChar(n \div 1000), DigitChar((n \div 100) % 10),
                DigitChar((n \div 10) % 10), DigitChar(n % 10)>>

-----------------------------------------------------------------------------
(* Regular expressions of the form (\d+)\s*(w1|w2|...) .                   *)

NoMatch == [matched |-> FALSE, number |-> <<>>, unit |-> <<>>, end |-> 0]

\* First position at or after p that holds no digit / no white space.
RECURSIVE SkipDigits(_, _)
SkipDigits(s, p) == IF p <= Len(s) /\ IsDigit(s[p]) THEN SkipDigits(s, p + 1) ELSE p
RECURSIVE SkipSpaces(_, _)
SkipSpaces(s, p) == IF p <= Len(s) /\ IsSpace(s[p]) THEN SkipSpaces(s, p + 1) ELSE p

\* The first alternative of `units` (in the order written) found at position p.
RECURSIVE FirstUnitAt(_, _, _)
FirstUnitAt(s, units, p) ==
    IF units = <<>> THEN <<>>
    ELSE IF OccursAt(s, Head(units), p) THEN Head(units)
    ELSE FirstUnitAt(s, Tail(units), p)

\* The match of (\d+)\s*(units) that starts exactly at p.  \d+ and \s* are
\* greedy, and giving back a digit or a blank never helps: what follows them
\* must be a blank or a letter.
MatchAt(s, units, p) ==
    LET q == SkipDigits(s, p)
        r == SkipSpaces(s, q)
        u == FirstUnitAt(s, units, r)
    IN  IF q > p /\ u # <<>>
        THEN [matched |-> TRUE, number |-> SubSeq(s, p, q - 1), unit |-> u,
              end |-> r + Len(u)]
        ELSE NoMatch

\* String.prototype.match without the g flag: the leftmost match.
RECURSIVE MatchFrom(_, _, _)
MatchFrom(s, units, p) ==
    IF p > Len(s) THEN NoMatch
    ELSE IF MatchAt(s, units, p).matched THEN MatchAt(s, units, p)
    ELSE MatchFrom(s, units, p + 1)
RegexMatch(s, units) == MatchFrom(s, units, 1)

W_hour == <<"h", "o", "u", "r">>
W_hours == <<"h", "o", "u", "r", "s">>
W_minute == <<"m", "i", "n", "u", "t", "e">>
W_minutes == <<"m", "i", "n", "u", "t", "e", "s">>
W_min == <<"m", "i", "n">>
W_day == <<"d", "a", "y">>
W_days == <<"d", "a", "y", "s">>
W_ago == <<"a", "g", "o">>

\* timeRegex of parseJobsFromHTML, /(\d+)\s*(hour|hours|day|days|minute|minutes)\s*ago/gi:
\* is the whole of s one match of it?  (The regular expression backtracks over
\* its alternatives, so every unit is tried.)
IsTimeToken(s) ==
    LET l == toLowerCase(s)
        q == SkipDigits(l, 1)
        r == SkipSpaces(l, q)
    IN  /\ q > 1
        /\ \E u \in {W_hour, W_hours, W_day, W_days, W_minute, W_minutes} :
              /\ OccursAt(l, u, r)
              /\ LET a == SkipSpaces(l, r + Len(u))
                 IN  OccursAt(l, W_ago, a) /\ a + Len(W_ago) - 1 = Len(l)

-----------------------------------------------------------------------------
(* Date: an instant of the local clock, to the minute, as its components   *)
(* [year, month (1..12), day, hours (0..23), minutes].  The local zone has *)
(* a fixed offset, so that setHours and setDate move the instant by whole  *)
(* hours and days.                                                         *)

\* Days from 1970-01-01 to the civil date, and back (proleptic Gregorian).
DaysFromCivil(y, m, d) ==
    LET yy == IF m <= 2 THEN y - 1 ELSE y
        era == yy \div 400
        yoe == yy - era * 400
        mp == IF m > 2 THEN m - 3 ELSE m + 9
        doy == (153 * mp + 2) \div 5 + d - 1
        doe == yoe * 365 + yoe \div 4 - yoe \div 100 + doy
    IN  era * 146097 + doe - 719468

CivilFromDays(z) ==
    LET zz == z + 719468
        era == zz \div 146097
        doe == zz - era * 146097
        yoe == (doe - doe \div 1460 + doe \div 36524 - doe \div 146096) \div 365
        doy == doe - (365 * yoe + yoe \div 4 - yoe \div 100)
        mp == (5 * doy + 2) \div 153
        d == doy - (153 * mp + 2) \div 5 + 1
        m == IF mp < 10 THEN mp + 3 ELSE mp - 9
        y == yoe + era * 400 + (IF m <= 2 THEN 1 ELSE 0)
    IN  [year |-> y, month |-> m, day |-> d]

\* Minutes from the epoch to the instant, and the instant of a minute count.
DateToMinutes(date) ==
    (DaysFromCivil(date.year, date.month, date.day) * 24 + date.hours) * 60 + date.minutes

DateFromMinutes(t) ==
    LET c == CivilFromDays(t \div 1440)
    IN  [year |-> c.year, month |-> c.month, day |-> c.day,
         hours |-> (t % 1440) \div 60, minutes |-> t % 60]

\* date.setMinutes(date.getMinutes() - n), date.setHours(date.getHours() - n) and
\* date.setDate(date.getDate() - n): the field may leave its range, and the
\* date is normalised.
setMinutesBack(date, n) == DateFromMinutes(DateToMinutes(date) - n)
\* setHours that wraps the hour of the day and leaves the date alone.
setHoursBack_sameDay(date, n) == [date EXCEPT !.hours = (date.hours - n) % 24]
setHoursBack(date, n) == DateFromMinutes(DateToMinutes(date) - 60 * n)
setDateBack(date, n) == DateFromMinutes(DateToMinutes(date) - 1440 * n)

\* "YYYY-MM-DD HH:MM AM/PM"
formatDateTime(date) ==
    LET ampm == IF date.hours >= 12 THEN <<"P", "M">> ELSE <<"A", "M">>
        h12 == date.hours % 12
        hours == IF h12 # 0 THEN h12 ELSE 12
    IN  Digits4(date.year) \o <<"-">> \o Pad2(date.month) \o <<"-">> \o Pad2(date.day)
        \o <<" ">> \o Pad2(hours) \o <<":">> \o Pad2(date.minutes) \o <<" ">> \o ampm

\* The string convertToActualDateTime returns when new Date() reads `now`
\* (it also stores timeString in this._lastTimeString: see the callers).
convertToActualDateTime(timeString, now) ==
    IF timeString = <<>> THEN <<>>
    ELSE LET match == RegexMatch(toLowerCase(timeString), <<W_hour, W_minute, W_min, W_day>>)
             number == parseInt(match.number)
             unit == match.unit
         IN  IF ~match.matched THEN formatDateTime(now)
             ELSE IF includes(unit, W_minute) \/ includes(unit, W_min)
                  THEN formatDateTime(setMinutesBack(now, number))
             ELSE IF includes(unit, W_hour)
                  THEN formatDateTime(setHoursBack(now, number))
             ELSE IF includes(unit, W_day)
                  THEN formatDateTime(setDateBack(now, number))
             ELSE formatDateTime(now)

-----------------------------------------------------------------------------
(* Recency window.                                                         *)

\* isTimeWithin6Hours with < for <=.
isTimeWithin6Hours_strict(timeString, maxHours) ==
    IF timeString = <<>> THEN FALSE
    ELSE LET match == RegexMatch(toLowerCase(timeString), <<W_hour, W_minute, W_min>>)
             number == parseInt(match.number)
             unit == match.unit
         IN  IF ~match.matched THEN FALSE
             ELSE IF includes(unit, W_minute) \/ includes(unit, W_min) THEN TRUE
             ELSE IF includes(unit, W_hour) THEN number < maxHours
             ELSE FALSE

\* isTimeWithin6Hours with the minutes held against the window.
isTimeWithin6Hours_minutesCounted(timeString, maxHours) ==
    IF timeString = <<>> THEN FALSE
    ELSE LET match == RegexMatch(toLowerCase(timeString), <<W_hour, W_minute, W_min>>)
             number == parseInt(match.number)
             unit == match.unit
         IN  IF ~match.matched THEN FALSE
             ELSE IF includes(unit, W_minute) \/ includes(unit, W_min)
                  THEN number <= 60 * maxHours
             ELSE IF includes(unit, W_hour) THEN number <= maxHours
             ELSE FALSE

isTimeWithin6Hours(timeString, maxHours) ==
    IF timeString = <<>> THEN FALSE
    ELSE LET match == RegexMatch(toLowerCase(timeString), <<W_hour, W_minute, W_min>>)
             number == parseInt(match.number)
             unit == match.unit
         IN  IF ~match.matched THEN FALSE
             ELSE IF includes(unit, W_minute) \/ includes(unit, W_min) THEN TRUE
             ELSE IF includes(unit, W_hour) THEN number <= maxHours
             ELSE FALSE

\* isWithin6Hours without the test of the record's own date.
isWithin6Hours_noDateCheck(dateTimeString, lastTime, maxHours) ==
    IF lastTime # <<>> THEN isTimeWithin6Hours(lastTime, maxHours) ELSE FALSE

\* this.isWithin6Hours(dateTimeString), with the two fields of `this` it reads.
isWithin6Hours(dateTimeString, lastTime, maxHours) ==
    IF dateTimeString = <<>> THEN FALSE
    ELSE IF lastTime # <<>> THEN isTimeWithin6Hours(lastTime, maxHours)
    ELSE FALSE

-----------------------------------------------------------------------------
(* Location parsing.                                                       *)

\* String.prototype.trim.
RECURSIVE trim(_)
trim(s) ==
    IF s = <<>> THEN s
    ELSE IF IsSpace(Head(s)) THEN trim(Tail(s))
    ELSE IF IsSpace(s[Len(s)]) THEN trim(SubSeq(s, 1, Len(s) - 1))
    ELSE s

\* String.prototype.split on a one-character separator.
RECURSIVE split(_, _)
split(s, sep) ==
    IF \E p \in 1..Len(s) : s[p] = sep
    THEN LET p == CHOOSE q \in 1..Len(s) :
                      s[q] = sep /\ \A k \in 1..(q - 1) : s[k] # sep
         IN  <<SubSeq(s, 1, p - 1)>> \o split(SubSeq(s, p + 1, Len(s)), sep)
    ELSE <<s>>

\* parseLocation with the last segment taken for the state.
parseLocation_lastSegment(locationString) ==
    LET cleanLocation == trim(split(locationString, Bullet)[1])
        raw == split(cleanLocation, ",")
        parts == [k \in 1..Len(raw) |-> trim(raw[k])]
    IN  IF Len(parts) >= 2
        THEN [city |-> parts[1], state |-> parts[Len(parts)]]
        ELSE [city |-> cleanLocation, state |-> <<>>]

parseLocation(locationString) ==
    LET cleanLocation == trim(split(locationString, Bullet)[1])
        raw == split(cleanLocation, ",")
        parts == [k \in 1..Len(raw) |-> trim(raw[k])]
    IN  IF Len(parts) >= 2
        THEN [city |-> parts[1], state |-> parts[2]]
        ELSE [city |-> cleanLocation, state |-> <<>>]

-----------------------------------------------------------------------------
(* Record validator.                                                       *)

S_Jobs == <<"J", "o", "b", "s">>
S_Search == <<"S", "e", "a", "r", "c", "h">>

\* hasRequiredData without the test for the "Jobs" placeholder.
hasRequiredData_noPlaceholder(jobData) ==
    /\ jobData.title # <<>>
    /\ Len(jobData.title) > 3
    /\ ~includes(jobData.title, S_Search)
    /\ (jobData.company # <<>> \/ jobData.location # <<>>)

\* hasRequiredData of isValidJobData.
hasRequiredData(jobData) ==
    /\ jobData.title # <<>>
    /\ Len(jobData.title) > 3
    /\ jobData.title # S_Jobs
    /\ ~includes(jobData.title, S_Search)
    /\ (jobData.company # <<>> \/ jobData.location # <<>>)

\* passesValidationWords with the listed words compared as written.
passesValidationWords_caseSensitive(jobData, service) ==
    IF "validationWords" \in DOMAIN service /\ Len(service.validationWords) > 0
    THEN LET lowerTitle == toLowerCase(jobData.title)
         IN  \E k \in 1..Len(service.validationWords) :
                includes(lowerTitle, service.validationWords[k])
    ELSE TRUE

\* passesValidationWords of isValidJobData.  A descriptor without the optional
\* property has no "validationWords" field; every listed word is a string.
passesValidationWords(jobData, service) ==
    IF "validationWords" \in DOMAIN service /\ Len(service.validationWords) > 0
    THEN LET lowerTitle == toLowerCase(jobData.title)
         IN  \E k \in 1..Len(service.validationWords) :
                includes(lowerTitle, toLowerCase(service.validationWords[k]))
    ELSE TRUE

\* this.isValidJobData(jobData, service), with the two fields of `this` it reads.
isValidJobData(jobData, service, lastTime, maxHours) ==
    /\ hasRequiredData(jobData)
    /\ isWithin6Hours(jobData.posted_date, lastTime, maxHours)
    /\ passesValidationWords(jobData, service)

-----------------------------------------------------------------------------
(* Fingerprint.                                                            *)

B64Chars ==
    <<"A", "B", "C", "D", "E", "F", "G", "H", "I", "J", "K", "L", "M", "N", "O", "P",
      "Q", "R", "S", "T", "U", "V", "W", "X", "Y", "Z", "a", "b", "c", "d", "e", "f",
      "g", "h", "i", "j", "k", "l", "m", "n", "o", "p", "q", "r", "s", "t", "u", "v",
      "w", "x", "y", "z", "0", "1", "2", "3", "4", "5", "6", "7", "8", "9", "+", "/">>

Pow64(k) == IF k = 0 THEN 1 ELSE IF k = 1 THEN 64 ELSE IF k = 2 THEN 4096 ELSE 262144

\* Buffer.toString('base64'): three bytes give four characters, "=" pads the
\* last group.
base64(bytes) ==
    LET n == Len(bytes)
        byte(k) == IF k <= n THEN bytes[k] ELSE 0
        char(j) ==
            LET g == (j - 1) \div 4
                k == (j - 1) % 4
                group == byte(3 * g + 1) * 65536 + byte(3 * g + 2) * 256 + byte(3 * g + 3)
            IN  IF (k = 2 /\ 3 * g + 2 > n) \/ (k = 3 /\ 3 * g + 3 > n) THEN "="
                ELSE B64Chars[((group \div Pow64(3 - k)) % 64) + 1]
    IN  [j \in 1..(4 * ((n + 2) \div 3)) |-> char(j)]

\* String.prototype.substring(0, end).
substring0(s, end) == SubSeq(s, 1, IF end < Len(s) THEN end ELSE Len(s))

FingerprintLength == 32

\* generateFingerprint with the company in the encoded data.
generateFingerprint_withCompany(job) ==
    LET data == job.company \o <<"-">> \o job.title \o <<"-">> \o job.location
                \o <<"-">> \o job.service
    IN  substring0(base64(Utf8(data)), FingerprintLength)

generateFingerprint(job) ==
    LET data == job.title \o <<"-">> \o job.location \o <<"-">> \o job.service
    IN  substring0(base64(Utf8(data)), FingerprintLength)

-----------------------------------------------------------------------------
(* Field extraction and time assignment for one container.                 *)
(*                                                                         *)
(* A container (jobElement) is what the field selector cascades read from  *)
(* it: the trimmed text of the first title, company and location selector  *)
(* that yields text ("" when none does), and `raises`, the field whose     *)
(* extraction throws ("" when none throws).                                *)

FallbackTime == <<"3", " ", "h", "o", "u", "r", "s", " ", "a", "g", "o">>

\* assignTime with the cursor left where it is.
assignTime_cursorStuck(jobData, this, now) ==
    LET timeString == IF this.timeIndex < Len(this.availableTimes)
                      THEN this.availableTimes[this.timeIndex + 1] ELSE FallbackTime
    IN  [jobData |-> [jobData EXCEPT
                        !.posted_date = convertToActualDateTime(timeString, now),
                        !.found_time = timeString],
         this |-> [this EXCEPT !.lastTimeString = timeString],
         error |-> FALSE]

\* assignTime without the fallback branch.
assignTime_noFallback(jobData, this, now) ==
    IF this.timeIndex < Len(this.availableTimes)
    THEN LET timeString == this.availableTimes[this.timeIndex + 1]
         IN  [jobData |-> [jobData EXCEPT
                             !.posted_date = convertToActualDateTime(timeString, now),
                             !.found_time = timeString],
              this |-> [this EXCEPT !.lastTimeString = timeString,
                                    !.timeIndex = this.timeIndex + 1],
              error |-> FALSE]
    ELSE [jobData |-> jobData, this |-> this, error |-> FALSE]

\* assignTime with the cursor moved on by the fallback branch as well.
assignTime_fallbackAdvances(jobData, this, now) ==
    IF this.timeIndex < Len(this.availableTimes)
    THEN LET timeString == this.availableTimes[this.timeIndex + 1]
         IN  [jobData |-> [jobData EXCEPT
                             !.posted_date = convertToActualDateTime(timeString, now),
                             !.found_time = timeString],
              this |-> [this EXCEPT !.lastTimeString = timeString,
                                    !.timeIndex = this.timeIndex + 1],
              error |-> FALSE]
    ELSE [jobData |-> [jobData EXCEPT
                         !.posted_date = convertToActualDateTime(FallbackTime, now),
                         !.found_time = FallbackTime],
          this |-> [this EXCEPT !.lastTimeString = FallbackTime,
                                !.timeIndex = this.timeIndex + 1],
          error |-> FALSE]

\* The time assignment that ends extractJobDataFromElement: the next token of
\* the pool, or the fallback once the pool is used up.
\* this == [availableTimes, timeIndex, lastTimeString]
assignTime(jobData, this, now) ==
    IF this.timeIndex < Len(this.availableTimes)
    THEN LET timeString == this.availableTimes[this.timeIndex + 1]
         IN  [jobData |-> [jobData EXCEPT
                             !.posted_date = convertToActualDateTime(timeString, now),
                             !.found_time = timeString],
              this |-> [this EXCEPT !.lastTimeString = timeString,
                                    !.timeIndex = this.timeIndex + 1],
              error |-> FALSE]
    ELSE [jobData |-> [jobData EXCEPT
                         !.posted_date = convertToActualDateTime(FallbackTime, now),
                         !.found_time = FallbackTime],
          this |-> [this EXCEPT !.lastTimeString = FallbackTime],
          error |-> FALSE]

\* extractJobDataFromElement with the time assignment placed after the
\* try/catch, so that a container whose extraction throws is given a token too.
extractJobDataFromElement_assignsAnyway(jobElement, service, this, now) ==
    LET jobData0 == [service |-> service.name,
                     service_display_name |-> service.display_name,
                     title |-> <<>>, company |-> <<>>, city |-> <<>>, state |-> <<>>,
                     location |-> <<>>, posted_date |-> <<>>, found_time |-> <<>>,
                     scraped_at |-> now]
        jobData1 == [jobData0 EXCEPT !.title = jobElement.title]
        jobData2 == [jobData1 EXCEPT !.company = jobElement.company]
        jobData3 == IF jobElement.location = <<>> THEN jobData2
                    ELSE [jobData2 EXCEPT
                            !.location = jobElement.location,
                            !.city = parseLocation(jobElement.location).city,
                            !.state = parseLocation(jobElement.location).state]
        caught(jobData) == [assignTime(jobData, this, now) EXCEPT !.error = TRUE]
    IN  IF jobElement.raises = "title" THEN caught(jobData0)
        ELSE IF jobElement.raises = "company" THEN caught(jobData1)
        ELSE IF jobElement.raises = "location" THEN caught(jobData2)
        ELSE assignTime(jobData3, this, now)

\* this.extractJobDataFromElement(jobElement, service) when new Date() reads
\* `now`: the jobData it returns, the fields of `this` it leaves, and whether
\* its catch block ran.
extractJobDataFromElement(jobElement, service, this, now) ==
    LET jobData0 == [service |-> service.name,
                     service_display_name |-> service.display_name,
                     title |-> <<>>, company |-> <<>>, city |-> <<>>, state |-> <<>>,
                     location |-> <<>>, posted_date |-> <<>>, found_time |-> <<>>,
                     scraped_at |-> now]
        jobData1 == [jobData0 EXCEPT !.title = jobElement.title]
        jobData2 == [jobData1 EXCEPT !.company = jobElement.company]
        jobData3 == IF jobElement.location = <<>> THEN jobData2
                    ELSE [jobData2 EXCEPT
                            !.location = jobElement.location,
                            !.city = parseLocation(jobElement.location).city,
                            !.state = parseLocation(jobElement.location).state]
        caught(jobData) == [jobData |-> jobData, this |-> this, error |-> TRUE]
    IN  IF jobElement.raises = "title" THEN caught(jobData0)
        ELSE IF jobElement.raises = "company" THEN caught(jobData1)
        ELSE IF jobElement.raises = "location" THEN caught(jobData2)
        ELSE assignTime(jobData3, this, now)

-----------------------------------------------------------------------------
(* The inputs of a run: environment, clock, services, documents.           *)

\* new JobScraper(): this.maxHoursWindow from process.env.MAX_HOURS.
DefaultMaxHours == 6
\* The constructor with the window fixed, as before MAX_HOURS was read.
constructorMaxHoursWindow_fixed(env) == DefaultMaxHours

constructorMaxHoursWindow(env) ==
    IF env.set /\ env.value > 0 THEN env.value ELSE DefaultMaxHours

EnvUnset == [set |-> FALSE, value |-> 0]
EnvHours(n) == [set |-> TRUE, value |-> n]

\* "N<sep><unit><sep>ago"
RECURSIVE NumStr(_)
NumStr(n) == IF n < 10 THEN <<DigitChar(n)>> ELSE NumStr(n \div 10) \o <<DigitChar(n % 10)>>
TimeToken(n, unit, sep) == NumStr(n) \o sep \o unit \o sep \o W_ago

T_2hours == TimeToken(2, W_hours, <<" ">>)
T_5hours == TimeToken(5, <<"H", "o", "u", "r", "s">>, <<" ">>)
T_1day == TimeToken(1, W_day, <<" ">>)

S_spark == <<"s", "p", "a", "r", "k", "_", "d", "e", "l", "i", "v", "e", "r", "y">>
S_Spark == <<"S", "p", "a", "r", "k">>
S_doordash == <<"d", "o", "o", "r", "d", "a", "s", "h">>
S_DoorDash == <<"D", "o", "o", "r", "D", "a", "s", "h">>
S_Driver == <<"D", "r", "i", "v", "e", "r">>
S_DeliveryDriver == <<"D", "e", "l", "i", "v", "e", "r", "y", " ">> \o S_Driver
S_Cashier == <<"C", "a", "s", "h", "i", "e", "r">>
S_Walmart == <<"W", "a", "l", "m", "a", "r", "t">>
S_Remote == <<"R", "e", "m", "o", "t", "e">>
S_AustinTX == <<"A", "u", "s", "t", "i", "n", ",", " ", "T", "X">>
S_AustinTXRemote == S_AustinTX \o <<" ", Bullet, " ">> \o S_Remote

\* The enabled entries of services.json: one with a keyword allowlist and a
\* freshness threshold of its own, one with neither.
SparkService ==
    [name |-> S_spark, display_name |-> S_Spark, table |-> "spark_jobs", enabled |-> TRUE,
     validationWords |-> <<S_Driver>>, maxHoursWindow |-> 2]
DoorDashService ==
    [name |-> S_doordash, display_name |-> S_DoorDash, table |-> "doordash_jobs",
     enabled |-> TRUE]
LoadedServices == <<SparkService, DoorDashService>>

\* The sequences over S of length lo..hi.
SeqsOf(S, lo, hi) == UNION {[1..n -> S] : n \in lo..hi}

\* What the field selector cascades can read from a container: a complete
\* listing, the "Jobs" placeholder heading, and a listing whose location
\* extraction throws.
GoodElement ==
    [title |-> S_DeliveryDriver, company |-> S_Walmart, location |-> S_AustinTXRemote,
     raises |-> ""]
JobsElement ==
    [title |-> S_Jobs, company |-> S_Walmart, location |-> S_AustinTX, raises |-> ""]
ThrowingElement ==
    [title |-> S_DeliveryDriver, company |-> S_Walmart, location |-> S_AustinTX,
     raises |-> "location"]
Elements == {GoodElement, JobsElement, ThrowingElement}

PoolTokens == {T_2hours, T_5hours}

\* How many elements the three job selectors '.MQUd2b', '.g' and
\* 'div[jscontroller="b11o3b"]' match: nothing at all, the first selector
\* alone, or the second while the third matches one element more.
MatchCounts ==
    {<<n, 0, 0>> : n \in 0..MaxContainers} \cup {<<0, n, 1>> : n \in 1..MaxContainers}

\* A fetched document, as parseJobsFromHTML reads it: the matches of timeRegex
\* in document order, and the number of elements each job selector matches.
\* What an element holds is read when the container loop reaches it.
ShortDocuments ==
    {[times |-> ts, matches |-> ms] :
        ts \in SeqsOf(PoolTokens, 0, MaxTimes), ms \in MatchCounts}

Null == [null |-> TRUE]

-----------------------------------------------------------------------------
(* parseJobsFromHTML.                                                      *)

CONFIG_maxJobs == 100

Min(a, b) == IF a < b THEN a ELSE b

\* The loop bound without the cap of CONFIG.maxJobs.
maxJobs_uncapped(elements) == Len(elements)

\* maxJobs of parseJobsFromHTML: the number of containers the loop processes.
maxJobs(elements) == Min(Len(elements), CONFIG_maxJobs)

\* A long results page: one container more than CONFIG.maxJobs, every one the
\* same complete listing, and a relative-time token for each of them.
LongDocument ==
    [times |-> [k \in 1..(CONFIG_maxJobs + 1) |-> T_5hours],
     matches |-> <<CONFIG_maxJobs + 1, 0, 0>>]

\* An API result whose content is not a string (a JSON object or a number):
\* it is truthy, so run hands it to parseJobsFromHTML, and it has no match
\* method.
NotAString == [notAString |-> TRUE]

Documents == ShortDocuments \cup {LongDocument, NotAString}

\* What the containers of a document can hold.
ContainersOf(document) == IF document = LongDocument THEN {GoodElement} ELSE Elements

\* document.querySelectorAll(selector): handles of the elements it matches.
jobSelectors == <<".MQUd2b", ".g", "div[jscontroller=\"b11o3b\"]">>

querySelectorAll(matches, g) ==
    [k \in 1..matches[g] |-> [selector |-> jobSelectors[g], index |-> k]]

\* The cascade that gathers the matches of all three selectors.
findJobElements_merged(matches) ==
    querySelectorAll(matches, 1) \o querySelectorAll(matches, 2)
    \o querySelectorAll(matches, 3)

\* The selector cascade: the matches of the first selector that matches anything.
findJobElements(matches) ==
    IF matches[1] > 0 THEN querySelectorAll(matches, 1)
    ELSE IF matches[2] > 0 THEN querySelectorAll(matches, 2)
    ELSE querySelectorAll(matches, 3)

\* The fields of `this` that extractJobDataFromElement reads and writes.
This == [availableTimes |-> availableTimes, timeIndex |-> timeIndex,
         lastTimeString |-> lastTimeString]

\* The end of one iteration of the loop of run: its locals are gone.
EndIteration ==
    /\ html' = Null
    /\ jobElements' = <<>>
    /\ elem' = 0
    /\ serviceJobs' = <<>>
    /\ extracted' = <<>>
    /\ result' = Null
    /\ inserted' = Null

\* An exception reaches the catch block of run: the loop is left, run logs the
\* error and returns.
RunCatch(thrower) ==
    /\ runError' = thrower
    /\ pc' = "done"
    /\ EndIteration

\* ParseStart with the cursor carried over from the document before.
ParseStart_keepCursor ==
    /\ pc = "parse"
    /\ IF html = NotAString
       THEN \* html.match is not a function: thrown before the try block
            /\ RunCatch("parseJobsFromHTML")
            /\ UNCHANGED <<availableTimes, timeIndex>>
       ELSE /\ availableTimes' = html.times
            /\ jobElements' = findJobElements(html.matches)
            /\ elem' = 0
            /\ serviceJobs' = <<>>
            /\ extracted' = <<>>
            /\ IF jobElements' = <<>>
               THEN /\ result' = [jobs |-> <<>>, totalFound |-> 0]
                    /\ pc' = "parsed"
               ELSE /\ result' = Null
                    /\ pc' = "loop"
            /\ UNCHANGED <<timeIndex, html, inserted, runError>>
    /\ UNCHANGED <<envMaxHours, clock, maxHoursWindow, services, lastTimeString, svc,
                   allJobs, perServiceSummary, saved, notifications, fnArgs, fnRet>>

\* Entry of parseJobsFromHTML(html, service): the token pool and its cursor are
\* set, the containers are located; without containers it returns at once.
ParseStart ==
    /\ pc = "parse"
    /\ IF html = NotAString
       THEN \* html.match is not a function: thrown before the try block
            /\ RunCatch("parseJobsFromHTML")
            /\ UNCHANGED <<availableTimes, timeIndex>>
       ELSE /\ availableTimes' = html.times
            /\ timeIndex' = 0
            /\ jobElements' = findJobElements(html.matches)
            /\ elem' = 0
            /\ serviceJobs' = <<>>
            /\ extracted' = <<>>
            /\ IF jobElements' = <<>>
               THEN /\ result' = [jobs |-> <<>>, totalFound |-> 0]
                    /\ pc' = "parsed"
               ELSE /\ result' = Null
                    /\ pc' = "loop"
            /\ UNCHANGED <<html, inserted, runError>>
    /\ UNCHANGED <<envMaxHours, clock, maxHoursWindow, services, lastTimeString, svc,
                   allJobs, perServiceSummary, saved, notifications, fnArgs, fnRet>>

\* ProcessContainer with the extraction error thrown on to the catch block of
\* parseJobsFromHTML, which returns the empty result.
ProcessContainer_rethrow ==
    /\ pc = "loop"
    /\ elem < maxJobs(jobElements)
    /\ \E jobElement \in ContainersOf(html) :
       LET r == extractJobDataFromElement(jobElement, services[svc], This, clock)
           valid == isValidJobData(r.jobData, services[svc], r.this.lastTimeString,
                                   maxHoursWindow)
       IN  /\ timeIndex' = r.this.timeIndex
           /\ lastTimeString' = r.this.lastTimeString
           /\ extracted' = Append(extracted, [jobData |-> r.jobData, error |-> r.error,
                                              valid |-> valid])
           /\ serviceJobs' = IF valid THEN Append(serviceJobs, r.jobData) ELSE serviceJobs
           /\ IF r.error
              THEN result' = [jobs |-> <<>>, totalFound |-> 0] /\ pc' = "parsed"
              ELSE UNCHANGED <<result, pc>>
    /\ elem' = elem + 1
    /\ UNCHANGED <<envMaxHours, clock, maxHoursWindow, services, availableTimes, svc,
                   html, jobElements, allJobs, perServiceSummary, inserted, saved,
                   notifications, runError, fnArgs, fnRet>>

\* One iteration of the container loop, on what jobElements[elem] turns out to
\* hold: extraction, then validation.
ProcessContainer ==
    /\ pc = "loop"
    /\ elem < maxJobs(jobElements)
    /\ \E jobElement \in ContainersOf(html) :
       LET r == extractJobDataFromElement(jobElement, services[svc], This, clock)
           valid == isValidJobData(r.jobData, services[svc], r.this.lastTimeString,
                                   maxHoursWindow)
       IN  /\ timeIndex' = r.this.timeIndex
           /\ lastTimeString' = r.this.lastTimeString
           /\ extracted' = Append(extracted, [jobData |-> r.jobData, error |-> r.error,
                                              valid |-> valid])
           /\ serviceJobs' = IF valid THEN Append(serviceJobs, r.jobData) ELSE serviceJobs
    /\ elem' = elem + 1
    /\ UNCHANGED <<envMaxHours, clock, maxHoursWindow, services, availableTimes, pc, svc,
                   html, jobElements, result, allJobs, perServiceSummary, inserted, saved,
                   notifications, runError, fnArgs, fnRet>>

\* ParseReturn with totalFound counting the containers the loop went through.
ParseReturn_countsProcessed ==
    /\ pc = "loop"
    /\ elem = maxJobs(jobElements)
    /\ result' = [jobs |-> serviceJobs, totalFound |-> elem]
    /\ pc' = "parsed"
    /\ UNCHANGED <<envMaxHours, clock, maxHoursWindow, services, availableTimes, timeIndex,
                   lastTimeString, svc, html, jobElements, elem, serviceJobs, extracted,
                   allJobs, perServiceSummary, inserted, saved, notifications, runError,
                   fnArgs, fnRet>>

\* The loop is over: parseJobsFromHTML returns.
ParseReturn ==
    /\ pc = "loop"
    /\ elem = maxJobs(jobElements)
    /\ result' = [jobs |-> serviceJobs, totalFound |-> Len(jobElements)]
    /\ pc' = "parsed"
    /\ UNCHANGED <<envMaxHours, clock, maxHoursWindow, services, availableTimes, timeIndex,
                   lastTimeString, svc, html, jobElements, elem, serviceJobs, extracted,
                   allJobs, perServiceSummary, inserted, saved, notifications, runError,
                   fnArgs, fnRet>>

-----------------------------------------------------------------------------
(* insertJobsToSupabase.                                                   *)

\* The offset of the local zone: minutes to add to the local clock to get UTC
\* (Date.prototype.getTimezoneOffset).
TimezoneOffset == 300

AllDigits(s) == s # <<>> /\ \A k \in 1..Len(s) : IsDigit(s[k])

S_AM == <<"A", "M">>
S_PM == <<"P", "M">>

\* convertToISOString without the branch that takes 12 AM to hour 0.
convertToISOString_noMidnight(dateTimeString) ==
    IF dateTimeString = <<>> THEN Null
    ELSE LET parts == split(dateTimeString, " ")
             datePart == split(parts[1], "-")
             timePart == IF Len(parts) >= 2 THEN split(parts[2], ":") ELSE <<>>
             ampm == IF Len(parts) >= 3 THEN parts[3] ELSE <<>>
         IN  IF \/ Len(datePart) < 3 \/ Len(timePart) < 2
                \/ \E k \in 1..3 : ~AllDigits(datePart[k])
                \/ \E k \in 1..2 : ~AllDigits(timePart[k])
             THEN Null
             ELSE LET hours == parseInt(timePart[1])
                      hour24 == IF ampm = S_PM /\ hours # 12 THEN hours + 12 ELSE hours
                      local == [year |-> parseInt(datePart[1]),
                                month |-> parseInt(datePart[2]),
                                day |-> parseInt(datePart[3]),
                                hours |-> hour24, minutes |-> parseInt(timePart[2])]
                      utc == DateFromMinutes(DateToMinutes(local) + TimezoneOffset)
                  IN  Digits4(utc.year) \o <<"-">> \o Pad2(utc.month) \o <<"-">>
                      \o Pad2(utc.day) \o <<"T">> \o Pad2(utc.hours) \o <<":">>
                      \o Pad2(utc.minutes)
                      \o <<":", "0", "0", ".", "0", "0", "0", "Z">>

\* convertToISOString(dateTimeString): "YYYY-MM-DD HH:MM AM/PM" of the local
\* clock to the ISO text of the same instant in UTC; null for an empty
\* string and when the parts do not make a date (toISOString then throws).
convertToISOString(dateTimeString) ==
    IF dateTimeString = <<>> THEN Null
    ELSE LET parts == split(dateTimeString, " ")
             datePart == split(parts[1], "-")
             timePart == IF Len(parts) >= 2 THEN split(parts[2], ":") ELSE <<>>
             ampm == IF Len(parts) >= 3 THEN parts[3] ELSE <<>>
         IN  IF \/ Len(datePart) < 3 \/ Len(timePart) < 2
                \/ \E k \in 1..3 : ~AllDigits(datePart[k])
                \/ \E k \in 1..2 : ~AllDigits(timePart[k])
             THEN Null
             ELSE LET hours == parseInt(timePart[1])
                      hour24 == IF ampm = S_PM /\ hours # 12 THEN hours + 12
                                ELSE IF ampm = S_AM /\ hours = 12 THEN 0
                                ELSE hours
                      local == [year |-> parseInt(datePart[1]),
                                month |-> parseInt(datePart[2]),
                                day |-> parseInt(datePart[3]),
                                hours |-> hour24, minutes |-> parseInt(timePart[2])]
                      utc == DateFromMinutes(DateToMinutes(local) + TimezoneOffset)
                  IN  Digits4(utc.year) \o <<"-">> \o Pad2(utc.month) \o <<"-">>
                      \o Pad2(utc.day) \o <<"T">> \o Pad2(utc.hours) \o <<":">>
                      \o Pad2(utc.minutes)
                      \o <<":", "0", "0", ".", "0", "0", "0", "Z">>

\* The row sent to the store for one record.
toSupabaseRow(job, service) ==
    [title |-> job.title,
     job_name |-> service.display_name,
     posted_at |-> convertToISOString(job.posted_date),
     location |-> job.location,
     city |-> job.city,
     state |-> job.state,
     source_url |-> Null,
     fingerprint |-> generateFingerprint(job),
     found_time |-> IF job.found_time # <<>> THEN job.found_time ELSE Null]

\* Is fingerprint fp a key of the Map built from rows?
HasFingerprint(rows, fp) == \E k \in 1..Len(rows) : rows[k].fingerprint = fp

\* The dedup with Map.set on every row: the value of a key is its last row,
\* at the position of its first.
RECURSIVE dedupByFingerprint_keepLast(_)
dedupByFingerprint_keepLast(supabaseJobs) ==
    IF supabaseJobs = <<>> THEN <<>>
    ELSE LET n == Len(supabaseJobs)
             row == supabaseJobs[n]
             before == dedupByFingerprint_keepLast(SubSeq(supabaseJobs, 1, n - 1))
         IN  IF HasFingerprint(before, row.fingerprint)
             THEN [k \in 1..Len(before) |->
                     IF before[k].fingerprint = row.fingerprint THEN row ELSE before[k]]
             ELSE Append(before, row)

\* The dedup that hands the values back last-inserted first.
RECURSIVE dedupByFingerprint_reversed(_)
dedupByFingerprint_reversed(supabaseJobs) ==
    IF supabaseJobs = <<>> THEN <<>>
    ELSE LET n == Len(supabaseJobs)
             row == supabaseJobs[n]
             before == dedupByFingerprint_reversed(SubSeq(supabaseJobs, 1, n - 1))
         IN  IF HasFingerprint(before, row.fingerprint) THEN before
             ELSE <<row>> \o before

\* No dedup: the transformed rows as they are.
dedupByFingerprint_none(supabaseJobs) == supabaseJobs

\* The in-batch dedup: fingerprintToJob keeps the first row of each
\* fingerprint, and a Map hands its values back in insertion order.
RECURSIVE dedupByFingerprint(_)
dedupByFingerprint(supabaseJobs) ==
    IF supabaseJobs = <<>> THEN <<>>
    ELSE LET n == Len(supabaseJobs)
             row == supabaseJobs[n]
             before == dedupByFingerprint(SubSeq(supabaseJobs, 1, n - 1))
         IN  IF HasFingerprint(before, row.fingerprint) THEN before
             ELSE Append(before, row)

\* ({ found_time, ...rest }) => rest, with found_time left in.
withoutFoundTime_kept(row) == row

\* ({ found_time, ...rest }) => rest
withoutFoundTime(row) == [f \in DOMAIN row \ {"found_time"} |-> row[f]]

\* What the store can answer to a request: a response with its status and
\* its text, or no response at all (fetch rejects).
S_found_time == <<"f", "o", "u", "n", "d", "_", "t", "i", "m", "e">>
S_column_ == <<"c", "o", "l", "u", "m", "n", " ">>
S_doesnotexist == <<" ", "d", "o", "e", "s", " ", "n", "o", "t", " ", "e", "x", "i", "s", "t">>
S_duplicatekey == <<"d", "u", "p", "l", "i", "c", "a", "t", "e", " ", "k", "e", "y">>
S_duplicatekeyvalue ==
    <<"d", "u", "p", "l", "i", "c", "a", "t", "e", " ", "k", "e", "y", " ", "v", "a",
      "l", "u", "e">>
S_FoundTimeMissing ==
    <<"n", "o", " ", "'", "f", "o", "u", "n", "d", "_", "t", "i", "m", "e", "'", " ",
      "c", "o", "l", "u", "m", "n">>
S_ColumnMissing ==
    <<"C", "o", "l", "u", "m", "n", " ", "x", " ", "d", "o", "e", "s", " ", "n", "o",
      "t", " ", "e", "x", "i", "s", "t">>
S_denied == <<"d", "e", "n", "i", "e", "d">>

Response(status, text) == [status |-> status, text |-> text]
Rejected == [rejected |-> TRUE]
ResponseOk == Response(201, <<>>)

IsOk(response) == response.status >= 200 /\ response.status <= 299

\* /found_time|column .* does not exist/i.test(errorText)
MentionsMissingColumn(errorText) ==
    LET l == toLowerCase(errorText)
    IN  \/ includes(l, S_found_time)
        \/ \E p \in 1..Len(l), q \in 1..Len(l) :
              /\ OccursAt(l, S_column_, p)
              /\ OccursAt(l, S_doesnotexist, q)
              /\ q >= p + Len(S_column_)

\* The two request bodies insertJobsToSupabase prepares for the table of the
\* service: the deduplicated rows, and the same rows without found_time.
storeRequests(service, jobs) ==
    LET supabaseJobs == [k \in 1..Len(jobs) |-> toSupabaseRow(jobs[k], service)]
        dedupedJobs == dedupByFingerprint(supabaseJobs)
        fallbackJobs == [k \in 1..Len(dedupedJobs) |-> withoutFoundTime(dedupedJobs[k])]
    IN  [first |-> [table |-> service.table, body |-> dedupedJobs],
         retry |-> [table |-> service.table, body |-> fallbackJobs]]

\* sendToStore that lets the error out of the catch block.
sendToStore_rethrow(req, responses) ==
    LET r1 == responses[1]
        r2 == responses[2]
        done(requests, outcome) ==
            [requests |-> requests, raised |-> outcome = "error", outcome |-> outcome]
    IN  IF r1 = Rejected THEN done(<<req.first>>, "error")
        ELSE IF IsOk(r1) THEN done(<<req.first>>, "inserted")
        ELSE IF r1.status = 409 /\ includes(r1.text, S_duplicatekey)
             THEN done(<<req.first>>, "duplicates")
        ELSE IF r1.status = 400 /\ MentionsMissingColumn(r1.text)
             THEN IF r2 = Rejected THEN done(<<req.first, req.retry>>, "error")
                  ELSE IF IsOk(r2)
                       THEN done(<<req.first, req.retry>>, "insertedWithoutFoundTime")
                  ELSE IF r2.status = 409 /\ includes(r2.text, S_duplicatekey)
                       THEN done(<<req.first, req.retry>>, "duplicates")
                  ELSE done(<<req.first, req.retry>>, "error")
        ELSE done(<<req.first>>, "error")

\* The try block of insertJobsToSupabase from the first fetch on, when the
\* store answers the requests with responses[1] and responses[2]: the requests
\* sent, whether an error was let out, and the message logged last.
sendToStore(req, responses) ==
    LET r1 == responses[1]
        r2 == responses[2]
        done(requests, outcome) ==
            [requests |-> requests, raised |-> FALSE, outcome |-> outcome]
    IN  IF r1 = Rejected THEN done(<<req.first>>, "error")
        ELSE IF IsOk(r1) THEN done(<<req.first>>, "inserted")
        ELSE IF r1.status = 409 /\ includes(r1.text, S_duplicatekey)
             THEN done(<<req.first>>, "duplicates")
        ELSE IF r1.status = 400 /\ MentionsMissingColumn(r1.text)
             THEN IF r2 = Rejected THEN done(<<req.first, req.retry>>, "error")
                  ELSE IF IsOk(r2)
                       THEN done(<<req.first, req.retry>>, "insertedWithoutFoundTime")
                  ELSE IF r2.status = 409 /\ includes(r2.text, S_duplicatekey)
                       THEN done(<<req.first, req.retry>>, "duplicates")
                  ELSE done(<<req.first, req.retry>>, "error")
        ELSE done(<<req.first>>, "error")

\* insertJobsToSupabase(service, jobs)
insertJobsToSupabase(service, jobs, responses) ==
    IF jobs = <<>> THEN [requests |-> <<>>, raised |-> FALSE, outcome |-> "nothing"]
    ELSE sendToStore(storeRequests(service, jobs), responses)

\* The answers of the store to one call: to the first request and, after a
\* missing-column answer, to the retry.
RetryResponses ==
    {ResponseOk, Response(409, S_duplicatekeyvalue), Response(400, S_FoundTimeMissing),
     Response(500, S_denied), Rejected}
StoreResponses ==
    {<<r1, Rejected>> :
        r1 \in {ResponseOk, Response(409, S_duplicatekeyvalue), Response(409, S_denied),
                Response(400, S_denied), Response(500, S_denied), Rejected}}
    \cup {<<r1, r2>> :
            r1 \in {Response(400, S_FoundTimeMissing), Response(400, S_ColumnMissing)},
            r2 \in RetryResponses}

\* One answer of each kind, for the runs: success, duplicates, an error status,
\* no response, and the missing column with a retry that succeeds or fails.
RunStoreResponses ==
    {<<ResponseOk, Rejected>>, <<Response(409, S_duplicatekeyvalue), Rejected>>,
     <<Response(500, S_denied), Rejected>>, <<Rejected, Rejected>>,
     <<Response(400, S_FoundTimeMissing), ResponseOk>>,
     <<Response(400, S_FoundTimeMissing), Response(500, S_denied)>>}

-----------------------------------------------------------------------------
(* run.                                                                    *)

Summary(service, total, qualified) ==
    [name |-> service.display_name, total |-> total, qualified |-> qualified]

\* After service number svc: the next service, or the end of the loop.
NextService == IF svc < Len(services) THEN "fetch" ELSE "combined"

\* String.prototype.startsWith.
startsWith(s, word) == OccursAt(s, word, 1)

\* isTimeWithinHours(relativeString, limitHours) of the Spark alert.
isTimeWithinHours(relativeString, limitHours) ==
    IF relativeString = <<>> THEN FALSE
    ELSE LET m == RegexMatch(toLowerCase(relativeString),
                             <<W_hour, W_hours, W_minute, W_min, W_minutes>>)
             n == parseInt(m.number)
             unit == m.unit
         IN  IF ~m.matched THEN FALSE
             ELSE IF startsWith(unit, W_min) THEN TRUE
             ELSE IF startsWith(unit, W_minute) THEN TRUE
             ELSE IF startsWith(unit, W_hour) THEN n <= limitHours
             ELSE FALSE

SparkAlertHours == 2

\* The message sendNtfySparkAlert posts for record j.
SparkAlert(j) ==
    [priority |-> "high", about |-> "spark", city |-> j.city, state |-> j.state,
     rel |-> j.found_time]

\* The Spark-only loop of run: one alert, for the first record within two hours.
sparkAlerts(service, jobs) ==
    IF service.name = S_spark
       /\ \E k \in 1..Len(jobs) : isTimeWithinHours(jobs[k].found_time, SparkAlertHours)
    THEN LET k == CHOOSE i \in 1..Len(jobs) :
                     /\ isTimeWithinHours(jobs[i].found_time, SparkAlertHours)
                     /\ \A h \in 1..(i - 1) :
                           ~isTimeWithinHours(jobs[h].found_time, SparkAlertHours)
         IN  <<SparkAlert(jobs[k])>>
    ELSE <<>>

\* fetchPageHTML answers with the content of the API result, or with null (any
\* failure of the scraping API); on null the service is skipped.
FetchPageHTML ==
    /\ pc = "fetch"
    /\ \E h \in Documents \cup {Null} :
          /\ IF h = Null
             THEN /\ html' = Null
                  /\ perServiceSummary' =
                        Append(perServiceSummary, Summary(services[svc], 0, 0))
                  /\ svc' = svc + 1
                  /\ pc' = NextService
             ELSE /\ html' = h
                  /\ pc' = "parse"
                  /\ UNCHANGED <<perServiceSummary, svc>>
    /\ UNCHANGED <<envMaxHours, clock, maxHoursWindow, services, availableTimes, timeIndex,
                   lastTimeString, jobElements, elem, serviceJobs, extracted, result,
                   allJobs, inserted, saved, notifications, runError, fnArgs, fnRet>>

\* parseJobsFromHTML returned no record: the summary entry, and on to the next
\* service.
RunNoJobs ==
    /\ pc = "parsed"
    /\ Len(result.jobs) = 0
    /\ perServiceSummary' =
          Append(perServiceSummary, Summary(services[svc], result.totalFound, 0))
    /\ svc' = svc + 1
    /\ pc' = NextService
    /\ EndIteration
    /\ UNCHANGED <<envMaxHours, clock, maxHoursWindow, services, availableTimes, timeIndex,
                   lastTimeString, allJobs, saved, notifications, runError, fnArgs, fnRet>>

\* parseJobsFromHTML returned records: they join allJobs and go to the store,
\* which answers as it likes.
RunInsertJobs ==
    /\ pc = "parsed"
    /\ Len(result.jobs) > 0
    /\ allJobs' = allJobs \o result.jobs
    /\ \E req \in {storeRequests(services[svc], result.jobs)} :
          \E responses \in RunStoreResponses : inserted' = sendToStore(req, responses)
    /\ IF inserted'.raised
       THEN runError' = "insertJobsToSupabase" /\ pc' = "done"
       ELSE runError' = runError /\ pc' = "inserted"
    \* the document and what parseJobsFromHTML kept of it are not read again
    /\ html' = Null
    /\ jobElements' = <<>>
    /\ elem' = 0
    /\ serviceJobs' = <<>>
    /\ extracted' = <<>>
    /\ UNCHANGED <<envMaxHours, clock, maxHoursWindow, services, availableTimes, timeIndex,
                   lastTimeString, svc, result, perServiceSummary, saved, notifications,
                   fnArgs, fnRet>>

\* What saveResults can do: write both files, fail on the JSON file, or fail
\* on the CSV file after the JSON file was written.
SaveOutcomes == {<<"json", "csv">>, <<>>, <<"json">>}

\* The rest of the iteration: the Spark alert, the file sink, the summary entry.
RunAlertAndSave ==
    /\ pc = "inserted"
    /\ notifications' = notifications \o sparkAlerts(services[svc], result.jobs)
    /\ \E files \in SaveOutcomes :
          /\ saved' = Append(saved, [sink |-> services[svc].name, jobs |-> result.jobs,
                                     files |-> files])
          /\ IF files = <<"json", "csv">>
             THEN /\ perServiceSummary' =
                        Append(perServiceSummary,
                               Summary(services[svc], result.totalFound, Len(result.jobs)))
                  /\ svc' = svc + 1
                  /\ pc' = NextService
                  /\ runError' = runError
                  /\ EndIteration
             ELSE /\ RunCatch("saveResults")
                  /\ UNCHANGED <<perServiceSummary, svc>>
    /\ UNCHANGED <<envMaxHours, clock, maxHoursWindow, services, availableTimes, timeIndex,
                   lastTimeString, allJobs, fnArgs, fnRet>>

S_all_services == <<"a", "l", "l", "_", "s", "e", "r", "v", "i", "c", "e", "s">>

\* The two messages of sendNtfyRunSummary.
SummaryHeader == [priority |-> "low", about |-> "ranAt"]
SummaryCounts(summary) == [priority |-> "low", about |-> "counts", counts |-> summary]

\* After the loop: the combined save (nothing to save without records), then
\* the run summary, whose second message is not posted when the first post
\* fails.
RunFinish ==
    /\ pc = "combined"
    /\ \E files \in IF allJobs = <<>> THEN {<<"json", "csv">>} ELSE SaveOutcomes :
          /\ saved' = IF allJobs = <<>> THEN saved
                      ELSE Append(saved, [sink |-> S_all_services, jobs |-> allJobs,
                                          files |-> files])
          /\ IF files = <<"json", "csv">>
             THEN /\ \E countsPosted \in BOOLEAN :
                        notifications' =
                           IF countsPosted
                           THEN notifications \o
                                <<SummaryHeader, SummaryCounts(perServiceSummary)>>
                           ELSE Append(notifications, SummaryHeader)
                  /\ pc' = "done"
                  /\ runError' = runError
             ELSE /\ runError' = "saveCombinedResults"
                  /\ pc' = "done"
                  /\ notifications' = notifications
    /\ UNCHANGED <<envMaxHours, clock, maxHoursWindow, services, availableTimes, timeIndex,
                   lastTimeString, svc, html, jobElements, elem, serviceJobs, extracted,
                   result, allJobs, perServiceSummary, inserted, fnArgs, fnRet>>

Now1 == [year |-> 2024, month |-> 3, day |-> 1, hours |-> 1, minutes |-> 30]

Init ==
    /\ envMaxHours \in {EnvUnset, EnvHours(2)}
    /\ clock = Now1
    /\ maxHoursWindow = constructorMaxHoursWindow(envMaxHours)
    /\ services = LoadedServices
    /\ availableTimes = <<>>
    /\ timeIndex = 0
    /\ lastTimeString = <<>>
    /\ pc = "fetch"
    /\ svc = 1
    /\ html = Null
    /\ jobElements = <<>>
    /\ elem = 0
    /\ serviceJobs = <<>>
    /\ extracted = <<>>
    /\ result = Null
    /\ allJobs = <<>>
    /\ perServiceSummary = <<>>
    /\ inserted = Null
    /\ saved = <<>>
    /\ notifications = <<>>
    /\ runError = ""
    /\ fnArgs = Null
    /\ fnRet = Null

Next ==
    \/ FetchPageHTML
    \/ ParseStart
    \/ ProcessContainer
    \/ ParseReturn
    \/ RunNoJobs
    \/ RunInsertJobs
    \/ RunAlertAndSave
    \/ RunFinish

Spec == Init /\ [][Next]_vars

-----------------------------------------------------------------------------
(* The validator, the recency window and the fingerprint on their own: a   *)
(* scraper is constructed, one call is made on drawn arguments, and its    *)
(* value is kept.                                                          *)

MaxEnvHours == 3        \* largest MAX_HOURS the environment sets

FnEnvs == {EnvUnset, EnvHours(-1), EnvHours(0)} \cup {EnvHours(n) : n \in 1..MaxEnvHours}

S_HOURS == <<"H", "O", "U", "R", "S">>
S_Minutes == <<"M", "i", "n", "u", "t", "e", "s">>
FnUnits == {W_hour, W_hours, S_HOURS, W_minute, W_minutes, S_Minutes, W_day, W_days}
FnNumbers == (0..MaxFnHours) \cup {59, 600}

\* The tokens timeRegex can put into the pool.
FnTokens ==
    {[n |-> n, unit |-> u, timeString |-> TimeToken(n, u, sep)] :
        n \in FnNumbers, u \in FnUnits, sep \in {<<>>, <<" ">>}}

S_Dev == <<"D", "e", "v">>
S_Chef == <<"C", "h", "e", "f">>
S_JobSearch == <<"J", "o", "b", " ">> \o S_Search
S_jobsearch == <<"j", "o", "b", " ", "s", "e", "a", "r", "c", "h">>
S_DRIVERwanted == <<"D", "R", "I", "V", "E", "R", " ", "w", "a", "n", "t", "e", "d">>
FnTitles == {<<>>, S_Dev, S_Chef, S_Jobs, S_JobSearch, S_jobsearch, S_DeliveryDriver,
             S_DRIVERwanted, S_Cashier}

S_driver == <<"d", "r", "i", "v", "e", "r">>
S_DRIVER == <<"D", "R", "I", "V", "E", "R">>
S_shopper == <<"s", "h", "o", "p", "p", "e", "r">>
FnServices ==
    {DoorDashService} \cup
    {[SparkService EXCEPT !.validationWords = ws] :
        ws \in {<<>>, <<S_driver>>, <<S_Driver>>, <<S_shopper>>, <<S_shopper, S_DRIVER>>}}

T_45minutes == TimeToken(45, W_minutes, <<" ">>)
T_9hours == TimeToken(9, W_hours, <<" ">>)

\* The calls of isValidJobData that parseJobsFromHTML can make: right after
\* extractJobDataFromElement, which either assigned a token (now also in
\* _lastTimeString) or threw before the assignment (_lastTimeString is then
\* what an earlier container left).
FnValidations ==
    {LET x == extractJobDataFromElement(
                  [title |-> t, company |-> c, location |-> l, raises |-> r], sv,
                  [availableTimes |-> ts, timeIndex |-> 0, lastTimeString |-> last], Now1)
     IN  [fn |-> "isValidJobData", jobData |-> x.jobData, service |-> sv,
          lastTimeString |-> x.this.lastTimeString] :
        t \in FnTitles, c \in {<<>>, S_Walmart}, l \in {<<>>, S_AustinTX},
        r \in {"", "location"}, sv \in FnServices,
        ts \in {<<>>, <<T_2hours>>, <<T_5hours>>, <<T_45minutes>>, <<T_9hours>>,
                <<T_1day>>},
        last \in {<<>>, T_2hours}}

\* Records that agree or differ in each field.
FnJobs ==
    {[service |-> sv, service_display_name |-> S_Spark, title |-> t, company |-> c,
      city |-> S_Remote, state |-> <<>>, location |-> l, posted_date |-> pd,
      found_time |-> ft, scraped_at |-> at] :
        sv \in {S_spark, S_doordash}, t \in {S_DeliveryDriver, S_Cashier},
        c \in {<<>>, S_Walmart}, l \in {S_Remote, S_AustinTXRemote},
        pd \in {<<>>, formatDateTime(Now1)}, ft \in {T_2hours, FallbackTime},
        at \in {Now1, setMinutesBack(Now1, 1)}}

\* Records with long titles, one title a prefix of the other, with and without
\* the remote marker in the location, of either service.
S_PartTime == <<" ", "-", " ", "P", "a", "r", "t", " ", "T", "i", "m", "e">>
S_Nights == <<" ", "N", "i", "g", "h", "t", "s">>
FnLongJobs ==
    {[service |-> sv, service_display_name |-> S_Spark, title |-> t, company |-> S_Walmart,
      city |-> S_Remote, state |-> <<>>, location |-> l,
      posted_date |-> formatDateTime(Now1), found_time |-> T_2hours, scraped_at |-> Now1] :
        sv \in {S_spark, S_doordash},
        t \in {S_DeliveryDriver, S_DeliveryDriver \o S_PartTime,
               S_DeliveryDriver \o S_PartTime \o S_Nights},
        l \in {S_AustinTX, S_AustinTXRemote}}

MaxBatch == 4           \* records in one batch handed to insertJobsToSupabase

\* The records of the batches: two sightings of one listing (A1, A2), a
\* different listing (B), and the listing of A1 with the remote marker (C).
JobA1 ==
    [service |-> S_spark, service_display_name |-> S_Spark, title |-> S_DeliveryDriver,
     company |-> S_Walmart, city |-> <<"A", "u", "s", "t", "i", "n">>, state |-> <<"T", "X">>,
     location |-> S_AustinTX, posted_date |-> convertToActualDateTime(T_2hours, Now1),
     found_time |-> T_2hours, scraped_at |-> Now1]
JobA2 ==
    [JobA1 EXCEPT !.posted_date = convertToActualDateTime(T_5hours, Now1),
                  !.found_time = T_5hours, !.company = <<>>]
JobB ==
    [JobA1 EXCEPT !.title = S_Cashier, !.location = S_Remote, !.city = S_Remote,
                  !.state = <<>>]
JobC == [JobA1 EXCEPT !.location = S_AustinTXRemote, !.found_time = FallbackTime]
FnBatchJobs == {JobA1, JobA2, JobB, JobC}
FnBatches == SeqsOf(FnBatchJobs, 0, MaxBatch)

\* Instants the clock can read: half past one on the night of 1 March of a
\* leap year, five past midnight on new year's day, noon on 1 March of a
\* common year, an afternoon in the middle of a month, and midnight on
\* 1 March of a century year that is no leap year.
Now2 == [year |-> 2024, month |-> 1, day |-> 1, hours |-> 0, minutes |-> 5]
Now3 == [year |-> 2023, month |-> 3, day |-> 1, hours |-> 12, minutes |-> 0]
Now4 == [year |-> 2024, month |-> 6, day |-> 15, hours |-> 13, minutes |-> 45]
Now5 == [year |-> 2100, month |-> 3, day |-> 1, hours |-> 0, minutes |-> 0]
FnNows == {Now1, Now2, Now3, Now4, Now5}

\* The dates a Date can hold when formatDateTime reads it: every minute of the
\* last day of February of a leap year, of the last day of a year and of the
\* first day of a year.
FnDays ==
    {[year |-> 2024, month |-> 2, day |-> 29], [year |-> 2024, month |-> 12, day |-> 31],
     [year |-> 2023, month |-> 1, day |-> 1]}
FnDates ==
    {[year |-> d.year, month |-> d.month, day |-> d.day, hours |-> h, minutes |-> mi] :
        d \in FnDays, h \in 0..23, mi \in 0..59}

\* Location texts: every text of a letter, the blank, the comma and the
\* bullet up to MaxLocation characters, and the locations of the listings.
FnLocations ==
    SeqsOf({"A", " ", ",", Bullet}, 0, MaxLocation)
    \cup {S_AustinTX, S_AustinTXRemote, S_Remote}

FnCalls ==
    {[fn |-> "isTimeWithin6Hours", token |-> tk] : tk \in FnTokens}
    \cup {[fn |-> "parseLocation", locationString |-> l] : l \in FnLocations}
    \cup {[fn |-> "convertToActualDateTime", token |-> tk, now |-> now] :
             tk \in FnTokens, now \in FnNows}
    \cup {[fn |-> "convertToISOString", date |-> d] : d \in FnDates}
    \cup FnValidations
    \cup {[fn |-> "generateFingerprint", job |-> j, other |-> k] : j \in FnJobs, k \in FnJobs}
    \cup {[fn |-> "generateFingerprint", job |-> j, other |-> k] :
             j \in FnLongJobs, k \in FnLongJobs}
    \cup {[fn |-> "insertJobsToSupabase", service |-> SparkService, jobs |-> b,
           responses |-> rs] : b \in FnBatches, rs \in StoreResponses}
    \cup {[fn |-> "dedupByFingerprint",
           supabaseJobs |-> [k \in 1..Len(b) |-> toSupabaseRow(b[k], SparkService)]] :
             b \in FnBatches}
    \cup {[fn |-> "findJobElements", matches |-> ms] :
             ms \in [1..3 -> 0..MaxContainers]}

\* A constructed scraper about to make one of the calls.  Only the recency
\* test and the validator read the window, so one environment is enough for
\* the other calls.
FnInit ==
    /\ fnArgs \in FnCalls
    /\ envMaxHours \in IF fnArgs.fn \in {"isTimeWithin6Hours", "isValidJobData"}
                        THEN FnEnvs ELSE {EnvUnset}
    /\ lastTimeString = IF fnArgs.fn = "isValidJobData" THEN fnArgs.lastTimeString ELSE <<>>
    /\ fnRet = Null
    /\ clock = IF fnArgs.fn = "convertToActualDateTime" THEN fnArgs.now ELSE Now1
    /\ maxHoursWindow = constructorMaxHoursWindow(envMaxHours)
    /\ services = LoadedServices
    /\ availableTimes = <<>>
    /\ timeIndex = 0
    /\ pc = "call"
    /\ svc = 1
    /\ html = Null
    /\ jobElements = <<>>
    /\ elem = 0
    /\ serviceJobs = <<>>
    /\ extracted = <<>>
    /\ result = Null
    /\ allJobs = <<>>
    /\ perServiceSummary = <<>>
    /\ inserted = Null
    /\ saved = <<>>
    /\ notifications = <<>>
    /\ runError = ""

Returned(value) ==
    /\ fnRet' = [value |-> value]
    /\ pc' = "returned"
    /\ UNCHANGED <<envMaxHours, clock, maxHoursWindow, services, availableTimes, timeIndex,
                   lastTimeString, svc, html, jobElements, elem, serviceJobs, extracted,
                   result, allJobs, perServiceSummary, inserted, saved, notifications,
                   runError, fnArgs>>

CallIsTimeWithin6Hours ==
    /\ pc = "call"
    /\ fnArgs.fn = "isTimeWithin6Hours"
    /\ Returned(isTimeWithin6Hours(fnArgs.token.timeString, maxHoursWindow))

CallIsValidJobData ==
    /\ pc = "call"
    /\ fnArgs.fn = "isValidJobData"
    /\ Returned(isValidJobData(fnArgs.jobData, fnArgs.service, lastTimeString,
                               maxHoursWindow))

CallGenerateFingerprint ==
    /\ pc = "call"
    /\ fnArgs.fn = "generateFingerprint"
    /\ Returned(<<generateFingerprint(fnArgs.job), generateFingerprint(fnArgs.other)>>)

CallInsertJobsToSupabase ==
    /\ pc = "call"
    /\ fnArgs.fn = "insertJobsToSupabase"
    /\ Returned(insertJobsToSupabase(fnArgs.service, fnArgs.jobs, fnArgs.responses))

\* The dedup on the transformed rows, and on its own result.
CallDedupByFingerprint ==
    /\ pc = "call"
    /\ fnArgs.fn = "dedupByFingerprint"
    /\ Returned([once |-> dedupByFingerprint(fnArgs.supabaseJobs),
                 twice |-> dedupByFingerprint(dedupByFingerprint(fnArgs.supabaseJobs))])

CallFindJobElements ==
    /\ pc = "call"
    /\ fnArgs.fn = "findJobElements"
    /\ Returned(findJobElements(fnArgs.matches))

\* convertToActualDateTime(timeString) when new Date() reads the clock; the
\* token (never empty here) is also kept in _lastTimeString.
CallConvertToActualDateTime ==
    /\ pc = "call"
    /\ fnArgs.fn = "convertToActualDateTime"
    /\ fnRet' = [value |-> convertToActualDateTime(fnArgs.token.timeString, clock)]
    /\ lastTimeString' = fnArgs.token.timeString
    /\ pc' = "returned"
    /\ UNCHANGED <<envMaxHours, clock, maxHoursWindow, services, availableTimes, timeIndex,
                   svc, html, jobElements, elem, serviceJobs, extracted, result, allJobs,
                   perServiceSummary, inserted, saved, notifications, runError, fnArgs>>

\* posted_date as formatDateTime writes it, and posted_at as convertToISOString
\* reads it back for the store.
CallConvertToISOString ==
    /\ pc = "call"
    /\ fnArgs.fn = "convertToISOString"
    /\ Returned([local |-> formatDateTime(fnArgs.date),
                 iso |-> convertToISOString(formatDateTime(fnArgs.date))])

CallParseLocation ==
    /\ pc = "call"
    /\ fnArgs.fn = "parseLocation"
    /\ Returned(parseLocation(fnArgs.locationString))

FnNext ==
    \/ CallIsTimeWithin6Hours
    \/ CallParseLocation
    \/ CallConvertToActualDateTime
    \/ CallConvertToISOString
    \/ CallIsValidJobData
    \/ CallGenerateFingerprint
    \/ CallInsertJobsToSupabase
    \/ CallDedupByFingerprint
    \/ CallFindJobElements

SpecFn == FnInit /\ [][FnNext]_vars

-----------------------------------------------------------------------------
(* Properties.                                                             *)

InDocument == pc \in {"loop", "parsed"}

\* No container of the current document logged an extraction error.
NoExtractionError == \A k \in 1..Len(extracted) : ~extracted[k].error

\* found_time of the k-th container processed (k counted from 1).
FoundTime(k) == extracted[k].jobData.found_time

\* The containers before the k-th whose extraction reached the time assignment.
AssignedBefore(k) == Cardinality({j \in 1..(k - 1) : ~extracted[j].error})

ThreeHoursAgo == <<"3", " ", "h", "o", "u", "r", "s", " ", "a", "g", "o">>

C2_FallbackWhenExhausted ==
    InDocument =>
        /\ \A k \in 1..Len(extracted) :
              (~extracted[k].error /\ AssignedBefore(k) >= Len(html.times)) =>
                  /\ FoundTime(k) = ThreeHoursAgo
                  /\ extracted[k].jobData.posted_date # <<>>
        /\ (NoExtractionError /\ Len(extracted) = 3 /\ Len(html.times) = 2) =>
              <<FoundTime(1), FoundTime(2), FoundTime(3)>>
                  = <<html.times[1], html.times[2], ThreeHoursAgo>>

\* C2 happens: 3 containers, 2 tokens, the third container on the fallback.
C2_Witness ==
    /\ pc = "parsed" /\ NoExtractionError
    /\ Len(jobElements) = 3 /\ Len(extracted) = 3 /\ Len(html.times) = 2
    /\ FoundTime(3) = ThreeHoursAgo
    /\ Len(result.jobs) >= 1

\* C3: every call of parseJobsFromHTML starts on its own document's pool with
\* the cursor at 0: the first container is given the first token of that pool
\* (the fallback when the pool is empty), whatever earlier documents left.
C3_PoolResetPerDocument ==
    /\ (pc = "loop" /\ elem = 0) => (timeIndex = 0 /\ availableTimes = html.times)
    /\ (InDocument /\ Len(extracted) >= 1 /\ ~extracted[1].error) =>
          FoundTime(1) = IF html.times # <<>> THEN html.times[1] ELSE ThreeHoursAgo

\* C3 happens: the second document's first container gets that document's
\* first token after the first document consumed a different one.
C3_Witness ==
    /\ svc = 2 /\ pc = "loop" /\ Len(extracted) = 1
    /\ Len(allJobs) >= 1 /\ allJobs[1].found_time = T_5hours
    /\ html.times # <<>> /\ html.times[1] = T_2hours
    /\ FoundTime(1) = T_2hours

\* The call that returned, and what it returned.
ReturnedFrom(fn) == pc = "returned" /\ fnArgs.fn = fn

\* The unit of a drawn token, whatever its case.
IsHoursToken(token) == toLowerCase(token.unit) \in {W_hour, W_hours}
IsMinutesToken(token) == toLowerCase(token.unit) \in {W_minute, W_minutes}
IsDaysToken(token) == toLowerCase(token.unit) \in {W_day, W_days}

\* C4: under the threshold T in force, isTimeWithin6Hours accepts "N hour(s)
\* ago" exactly when N <= T (so T is accepted and T+1 is not), and accepts no
\* token in days.
C4_HoursWithinThreshold ==
    ReturnedFrom("isTimeWithin6Hours") =>
        /\ IsHoursToken(fnArgs.token) => (fnRet.value <=> fnArgs.token.n <= maxHoursWindow)
        /\ IsDaysToken(fnArgs.token) => ~fnRet.value

\* C4 happens: with MAX_HOURS set, the token of exactly T hours is accepted.
C4_Witness ==
    /\ ReturnedFrom("isTimeWithin6Hours")
    /\ envMaxHours.set /\ envMaxHours.value > 0
    /\ IsHoursToken(fnArgs.token)
    /\ fnArgs.token.n = maxHoursWindow
    /\ fnRet.value

\* C5: a token in minutes is recent whatever its magnitude and the threshold.
C5_MinutesAlwaysRecent ==
    (ReturnedFrom("isTimeWithin6Hours") /\ IsMinutesToken(fnArgs.token)) => fnRet.value

\* C5 happens: "600 minutes ago" is accepted under a threshold of 1 hour.
C5_Witness ==
    /\ ReturnedFrom("isTimeWithin6Hours")
    /\ IsMinutesToken(fnArgs.token)
    /\ fnArgs.token.n = 600
    /\ maxHoursWindow = 1
    /\ fnRet.value

\* The defects of structural completeness, as the specification lists them.
TitleContainsSearch(title) ==
    \E p \in 1..Len(title) :
        /\ p + 5 <= Len(title)
        /\ <<title[p], title[p + 1], title[p + 2], title[p + 3], title[p + 4], title[p + 5]>>
              = <<"S", "e", "a", "r", "c", "h">>
StructuralDefect(jobData) ==
    \/ jobData.title = <<>>
    \/ Len(jobData.title) <= 3
    \/ jobData.title = <<"J", "o", "b", "s">>
    \/ TitleContainsSearch(jobData.title)
    \/ (jobData.company = <<>> /\ jobData.location = <<>>)

\* C7: isValidJobData rejects every record with a structural defect, and a
\* record without one is judged by recency and keywords alone.
C7_StructuralCompleteness ==
    ReturnedFrom("isValidJobData") =>
        IF StructuralDefect(fnArgs.jobData)
        THEN ~fnRet.value
        ELSE fnRet.value <=>
                /\ isWithin6Hours(fnArgs.jobData.posted_date, lastTimeString, maxHoursWindow)
                /\ passesValidationWords(fnArgs.jobData, fnArgs.service)

\* C7 happens: the title "Jobs" with company and location, a recent token and
\* no keyword list is rejected.
C7_Witness ==
    /\ ReturnedFrom("isValidJobData")
    /\ fnArgs.jobData.title = <<"J", "o", "b", "s">>
    /\ fnArgs.jobData.company # <<>> /\ fnArgs.jobData.location # <<>>
    /\ fnArgs.jobData.found_time = T_2hours
    /\ "validationWords" \notin DOMAIN fnArgs.service
    /\ ~fnRet.value

\* Does `word` occur in `title` when upper and lower case are not told apart?
OccursIgnoringCase(title, word) ==
    \E p \in 1..(Len(title) + 1) :
        /\ p + Len(word) - 1 <= Len(title)
        /\ \A k \in 1..Len(word) : LowerChar(title[p + k - 1]) = LowerChar(word[k])

\* The keyword predicate of the specification.
KeywordAllowed(jobData, service) ==
    ("validationWords" \in DOMAIN service /\ service.validationWords # <<>>) =>
        \E k \in 1..Len(service.validationWords) :
            OccursIgnoringCase(jobData.title, service.validationWords[k])

\* C8: with a non-empty validationWords list a record is qualified only if its
\* title contains a listed keyword, case ignored; without a list, or with an
\* empty one, the keyword predicate lets every record through.
C8_KeywordAllowlist ==
    ReturnedFrom("isValidJobData") =>
        (fnRet.value <=>
            /\ hasRequiredData(fnArgs.jobData)
            /\ isWithin6Hours(fnArgs.jobData.posted_date, lastTimeString, maxHoursWindow)
            /\ KeywordAllowed(fnArgs.jobData, fnArgs.service))

\* C8 happens: "Delivery Driver" is qualified by the keyword "DRIVER", listed
\* second.
C8_Witness ==
    /\ ReturnedFrom("isValidJobData")
    /\ "validationWords" \in DOMAIN fnArgs.service
    /\ fnArgs.service.validationWords = <<S_shopper, S_DRIVER>>
    /\ fnArgs.jobData.title = S_DeliveryDriver
    /\ fnRet.value

\* C10: records with the same title, location and service have the same
\* fingerprint, whatever their other fields.
C10_FingerprintOfKey ==
    (/\ ReturnedFrom("generateFingerprint")
     /\ fnArgs.job.title = fnArgs.other.title
     /\ fnArgs.job.location = fnArgs.other.location
     /\ fnArgs.job.service = fnArgs.other.service)
    => fnRet.value[1] = fnRet.value[2]

\* C10 happens: two records that agree on the key and differ in company,
\* posted_date, found_time and scraped_at.
C10_Witness ==
    /\ ReturnedFrom("generateFingerprint")
    /\ fnArgs.job.title = fnArgs.other.title
    /\ fnArgs.job.location = fnArgs.other.location
    /\ fnArgs.job.service = fnArgs.other.service
    /\ fnArgs.job.company # fnArgs.other.company
    /\ fnArgs.job.posted_date # fnArgs.other.posted_date
    /\ fnArgs.job.found_time # fnArgs.other.found_time
    /\ fnArgs.job.scraped_at # fnArgs.other.scraped_at
    /\ fnRet.value[1] = fnRet.value[2]

\* The N of a token "N hour(s) ago".
HoursOfToken(token) == parseInt(SubSeq(token, 1, SkipDigits(token, 1) - 1))

\* The freshness threshold a service descriptor declares, 6 hours when it
\* declares none or a non-positive one.
DescriptorThreshold(service) ==
    IF "maxHoursWindow" \in DOMAIN service /\ service.maxHoursWindow > 0
    THEN service.maxHoursWindow ELSE 6

\* The freshness threshold of the run: MAX_HOURS of the environment, 6 hours
\* when it is unset or non-positive.
RunThreshold == IF envMaxHours.set /\ envMaxHours.value > 0 THEN envMaxHours.value ELSE 6

\* Every container of the current document that got a token in hours and
\* passes the structural and the keyword predicate is qualified exactly when
\* its token is within `threshold` hours.
RecencyDecidedBy(threshold) ==
    InDocument =>
        \A k \in 1..Len(extracted) :
            (/\ ~extracted[k].error
             /\ hasRequiredData(extracted[k].jobData)
             /\ passesValidationWords(extracted[k].jobData, services[svc]))
            => (extracted[k].valid <=> HoursOfToken(FoundTime(k)) <= threshold)

C9_ReturnedJobsQualified ==
    pc = "parsed" =>
        \A k \in 1..Len(result.jobs) :
            /\ ~StructuralDefect(result.jobs[k])
            /\ result.jobs[k].found_time # <<>>
            /\ HoursOfToken(result.jobs[k].found_time) <= RunThreshold
            /\ KeywordAllowed(result.jobs[k], services[svc])

\* C9 happens: a container whose extraction threw right after a qualified one,
\* with the qualified one's token still in _lastTimeString, is not returned.
C9_Witness ==
    /\ pc = "parsed"
    /\ Len(extracted) >= 2
    /\ extracted[1].valid
    /\ extracted[2].error /\ ~extracted[2].valid
    /\ lastTimeString = FoundTime(1)
    /\ HoursOfToken(lastTimeString) <= RunThreshold
    /\ Len(result.jobs) = 1

-----------------------------------------------------------------------------
(* Fingerprints of records that differ in the key.                         *)

SameKey(j, k) == j.title = k.title /\ j.location = k.location /\ j.service = k.service

\* C11: two records that differ in title, location or service have different
\* fingerprints.
C11_DistinctKeysDistinctFingerprints ==
    (ReturnedFrom("generateFingerprint") /\ ~SameKey(fnArgs.job, fnArgs.other))
    => fnRet.value[1] # fnRet.value[2]

KeyBytes(job) == Utf8(job.title \o <<"-">> \o job.location \o <<"-">> \o job.service)

\* What the code does instead of C11: only the first 24 bytes of
\* "title-location-service" (32 base64 characters) reach the fingerprint.
C11_FingerprintIsKeyPrefix ==
    ReturnedFrom("generateFingerprint")
    => ((fnRet.value[1] = fnRet.value[2])
        <=> (substring0(KeyBytes(fnArgs.job), 24) = substring0(KeyBytes(fnArgs.other), 24)))

\* Two listings of one title, one in "Austin, TX" and one in
\* "Austin, TX (bullet) Remote", get the same fingerprint.
C11_Collision ==
    /\ ReturnedFrom("generateFingerprint")
    /\ fnArgs.job.title = S_DeliveryDriver
    /\ fnArgs.other.title = S_DeliveryDriver
    /\ fnArgs.job.service = fnArgs.other.service
    /\ fnArgs.job.location = S_AustinTX
    /\ fnArgs.other.location = S_AustinTXRemote
    /\ fnRet.value[1] = fnRet.value[2]

-----------------------------------------------------------------------------
(* The in-batch dedup and the store requests.                              *)

Fingerprints(rows) == {rows[k].fingerprint : k \in 1..Len(rows)}

NoDuplicateFingerprint(rows) ==
    \A i \in 1..Len(rows), j \in 1..Len(rows) :
        i # j => rows[i].fingerprint # rows[j].fingerprint

\* The position of the first row of rows with fingerprint fp.
FirstIndex(rows, fp) ==
    CHOOSE k \in 1..Len(rows) :
        /\ rows[k].fingerprint = fp
        /\ \A h \in 1..(k - 1) : rows[h].fingerprint # fp

\* C12: the dedup returns one row per fingerprint of the batch, each the first
\* row of its fingerprint, in the order in which the fingerprints first occur.
C12_DedupKeepsFirstOccurrences ==
    ReturnedFrom("dedupByFingerprint") =>
        LET rows == fnArgs.supabaseJobs
            out == fnRet.value.once
        IN  /\ Fingerprints(out) = Fingerprints(rows)
            /\ NoDuplicateFingerprint(out)
            /\ \A i \in 1..Len(out) : out[i] = rows[FirstIndex(rows, out[i].fingerprint)]
            /\ \A i \in 1..Len(out), j \in 1..Len(out) :
                  i < j => FirstIndex(rows, out[i].fingerprint)
                           < FirstIndex(rows, out[j].fingerprint)

\* C12 happens: a batch of four rows in which the third repeats the
\* fingerprint of the first with other content, cut down to two rows.
C12_Witness ==
    /\ ReturnedFrom("dedupByFingerprint")
    /\ Len(fnArgs.supabaseJobs) = 4
    /\ fnArgs.supabaseJobs[3].fingerprint = fnArgs.supabaseJobs[1].fingerprint
    /\ fnArgs.supabaseJobs[3] # fnArgs.supabaseJobs[1]
    /\ fnArgs.supabaseJobs[2].fingerprint # fnArgs.supabaseJobs[1].fingerprint
    /\ fnRet.value.once = <<fnArgs.supabaseJobs[1], fnArgs.supabaseJobs[2]>>

\* C13: the dedup of a deduplicated batch is that batch: a second pass changes
\* nothing, and a batch without repeated fingerprints comes back as it is.
C13_DedupIdempotent ==
    ReturnedFrom("dedupByFingerprint") =>
        /\ fnRet.value.twice = fnRet.value.once
        /\ NoDuplicateFingerprint(fnArgs.supabaseJobs) =>
              fnRet.value.once = fnArgs.supabaseJobs

\* C13 happens: the first pass dropped rows and left two, the second pass
\* returned the same two.
C13_Witness ==
    /\ ReturnedFrom("dedupByFingerprint")
    /\ Len(fnRet.value.once) = 2
    /\ Len(fnArgs.supabaseJobs) > 2
    /\ fnRet.value.twice = fnRet.value.once

\* C14: no request body sent to the store, first attempt or retry, has two
\* rows with the same fingerprint.
C14_RequestsDeduplicated ==
    ReturnedFrom("insertJobsToSupabase") =>
        \A r \in 1..Len(fnRet.value.requests) :
            NoDuplicateFingerprint(fnRet.value.requests[r].body)

\* C14 happens: a batch with a repeated fingerprint went out in a first
\* attempt and in a retry, two rows each.
C14_Witness ==
    /\ ReturnedFrom("insertJobsToSupabase")
    /\ Len(fnRet.value.requests) = 2
    /\ Len(fnArgs.jobs) = 3
    /\ generateFingerprint(fnArgs.jobs[1]) = generateFingerprint(fnArgs.jobs[3])
    /\ Len(fnRet.value.requests[1].body) = 2
    /\ Len(fnRet.value.requests[2].body) = 2

\* A response that reports a column missing from the table.
MissingColumnResponse(response) ==
    /\ response # Rejected
    /\ response.status = 400
    /\ response.text \in {S_FoundTimeMissing, S_ColumnMissing}

\* Row `stripped` is row `full` without found_time.
IsWithoutFoundTime(stripped, full) ==
    /\ DOMAIN stripped = DOMAIN full \ {"found_time"}
    /\ \A f \in DOMAIN stripped : stripped[f] = full[f]

-----------------------------------------------------------------------------
(* The run around the store and the parser.                                *)

\* C17: whatever the store answers, insertJobsToSupabase returns to run, run
\* calls saveResults for the same service with the same records, and unless
\* saveResults itself fails run goes on to the next service.
C17_StoreFailureNotFatal ==
    [][/\ (pc = "parsed" /\ Len(result.jobs) > 0) =>
             (pc' = "inserted" /\ ~inserted'.raised /\ runError' = "")
       /\ pc = "inserted" =>
             /\ Len(saved') = Len(saved) + 1
             /\ saved'[Len(saved')].sink = services[svc].name
             /\ saved'[Len(saved')].jobs = result.jobs
             /\ saved'[Len(saved')].files = <<"json", "csv">> =>
                   (svc' = svc + 1 /\ pc' = NextService /\ runError' = "")]_vars

\* C17 happens: the store rejected the retry of the first service's batch, and
\* run stands before the Spark alert and the file sink of that service.
C17_Witness ==
    /\ pc = "inserted"
    /\ svc = 1
    /\ inserted.outcome = "error"
    /\ Len(inserted.requests) = 2
    /\ runError = ""

JobFingerprints(jobs) == {generateFingerprint(jobs[k]) : k \in 1..Len(jobs)}

\* C15: the records parseJobsFromHTML returns, which run hands to the file
\* sink and to the combined results, hold at most one record per fingerprint.
C15_ReturnedBatchDeduplicated ==
    /\ pc \in {"parsed", "inserted"} =>
          Cardinality(JobFingerprints(result.jobs)) = Len(result.jobs)
    /\ \A k \in 1..Len(saved) :
          saved[k].sink # S_all_services =>
             Cardinality(JobFingerprints(saved[k].jobs)) = Len(saved[k].jobs)

\* What happens instead: two records of one fingerprint were returned and
\* written to both files, while the store request held one row.
C15_DuplicatesReachSinks ==
    /\ pc = "fetch"
    /\ svc = 2
    /\ Len(saved) = 1
    /\ saved[1].files = <<"json", "csv">>
    /\ Len(saved[1].jobs) = 2
    /\ Cardinality(JobFingerprints(saved[1].jobs)) = 1
    /\ allJobs = saved[1].jobs

\* C18: parseJobsFromHTML lets no exception out: for a document that cannot
\* be parsed and for a document in which no selector matches it returns
\* { jobs: [], totalFound: 0 }.
C18_ParseNeverRaises ==
    /\ runError # "parseJobsFromHTML"
    /\ (pc = "parsed" /\ html.matches = <<0, 0, 0>>) =>
          result = [jobs |-> <<>>, totalFound |-> 0]

\* The half of C18 the code keeps: without containers the result is empty.
C18_NoContainersEmptyResult ==
    (pc = "parsed" /\ html.matches = <<0, 0, 0>>) =>
        result = [jobs |-> <<>>, totalFound |-> 0]

\* What happens instead: the exception of the first service's document ended
\* the run, with no summary entry and the second service never fetched.
C18_ParseRaised ==
    /\ pc = "done"
    /\ runError = "parseJobsFromHTML"
    /\ svc = 1
    /\ perServiceSummary = <<>>
    /\ notifications = <<>>

\* The number of elements the winning selector group matches in the document.
WinningGroupSize(matches) ==
    IF \E g \in 1..3 : matches[g] > 0
    THEN matches[CHOOSE g \in 1..3 : matches[g] > 0 /\ \A h \in 1..(g - 1) : matches[h] = 0]
    ELSE 0

\* C19: totalFound is the number of elements of the winning group, whatever
\* validation and the maxJobs cap leave of them, so it is at least the
\* number of returned records.
C19_TotalFoundIsRawCount ==
    pc = "parsed" =>
        /\ result.totalFound = WinningGroupSize(html.matches)
        /\ result.totalFound >= Len(result.jobs)

\* C19 happens: a document of one container more than maxJobs, of which
\* maxJobs records were returned.
C19_Witness ==
    /\ pc = "parsed"
    /\ result.totalFound = CONFIG_maxJobs + 1
    /\ Len(result.jobs) = CONFIG_maxJobs

\* C20: the cascade returns the matches of the first selector, in the order
\* '.MQUd2b', '.g', 'div[jscontroller="b11o3b"]', that matches anything, and
\* only those.
C20_FirstMatchingGroupOnly ==
    ReturnedFrom("findJobElements") =>
        LET matches == fnArgs.matches
            found == fnRet.value
        IN  /\ (\A g \in 1..3 : matches[g] = 0) => found = <<>>
            /\ \A g \in 1..3 :
                  (matches[g] > 0 /\ \A h \in 1..(g - 1) : matches[h] = 0) =>
                     /\ Len(found) = matches[g]
                     /\ \A k \in 1..Len(found) :
                           /\ found[k].selector =
                                 <<".MQUd2b", ".g", "div[jscontroller=\"b11o3b\"]">>[g]
                           /\ found[k].index = k

\* C20 happens: the first selector matches nothing, the second two elements
\* and the third three; the two are returned.
C20_Witness ==
    /\ ReturnedFrom("findJobElements")
    /\ fnArgs.matches = <<0, 2, 3>>
    /\ Len(fnRet.value) = 2
    /\ fnRet.value[1].selector = ".g"

\* The clock time a "YYYY-MM-DD HH:MM AM/PM" text shows, read position by
\* position.
ClockOfLocal(text) ==
    LET h12 == parseInt(SubSeq(text, 12, 13))
        pm == SubSeq(text, 18, 19) = <<"P", "M">>
    IN  [year |-> parseInt(SubSeq(text, 1, 4)), month |-> parseInt(SubSeq(text, 6, 7)),
         day |-> parseInt(SubSeq(text, 9, 10)),
         hours |-> (h12 % 12) + (IF pm THEN 12 ELSE 0),
         minutes |-> parseInt(SubSeq(text, 15, 16))]

IsLeapYear(y) == y % 4 = 0 /\ (y % 100 # 0 \/ y % 400 = 0)
DaysInMonth(y, m) ==
    IF m = 2 THEN (IF IsLeapYear(y) THEN 29 ELSE 28)
    ELSE IF m \in {4, 6, 9, 11} THEN 30 ELSE 31

\* A date of the calendar with a time of the day.
IsClockTime(d) ==
    /\ d.month \in 1..12
    /\ d.day \in 1..DaysInMonth(d.year, d.month)
    /\ d.hours \in 0..23
    /\ d.minutes \in 0..59

\* The minutes in one unit of a drawn token.
UnitMinutes(token) ==
    IF IsMinutesToken(token) THEN 1 ELSE IF IsHoursToken(token) THEN 60 ELSE 1440

Text_Feb29_1130PM ==
    <<"2", "0", "2", "4", "-", "0", "2", "-", "2", "9", " ",
      "1", "1", ":", "3", "0", " ", "P", "M">>

\* C21: for a token "N minute(s)/hour(s)/day(s) ago" convertToActualDateTime
\* returns a well-formed "YYYY-MM-DD HH:MM AM/PM" text of a calendar date whose
\* clock time lies exactly N minutes, hours or days before the instant the
\* clock reads, the date rolling back over midnight, the end of a month and
\* the end of a year; "2 hours ago" at 01:30 on 1 March 2024 gives 11:30 PM on
\* 29 February.
C21_ExactlyNUnitsBefore ==
    ReturnedFrom("convertToActualDateTime") =>
        LET past == ClockOfLocal(fnRet.value)
        IN  /\ Len(fnRet.value) = 19
            /\ IsClockTime(past)
            /\ formatDateTime(past) = fnRet.value
            /\ DateToMinutes(past)
                   = DateToMinutes(clock) - fnArgs.token.n * UnitMinutes(fnArgs.token)
            /\ (fnArgs.token.timeString = T_2hours /\ clock = Now1)
                   => fnRet.value = Text_Feb29_1130PM

\* C21 happens: a token in hours takes the time back over midnight into the
\* last day of February of a leap year.
C21_Witness ==
    /\ ReturnedFrom("convertToActualDateTime")
    /\ IsHoursToken(fnArgs.token)
    /\ fnArgs.token.n = 2
    /\ clock = Now1
    /\ ClockOfLocal(fnRet.value) =
           [year |-> 2024, month |-> 2, day |-> 29, hours |-> 23, minutes |-> 30]

\* The UTC clock time an ISO text "YYYY-MM-DDTHH:MM:00.000Z" shows.
ClockOfISO(text) ==
    [year |-> parseInt(SubSeq(text, 1, 4)), month |-> parseInt(SubSeq(text, 6, 7)),
     day |-> parseInt(SubSeq(text, 9, 10)), hours |-> parseInt(SubSeq(text, 12, 13)),
     minutes |-> parseInt(SubSeq(text, 15, 16))]

\* The local clock time of an instant given by its UTC clock time.
LocalOfUTC(utc) == DateFromMinutes(DateToMinutes(utc) - TimezoneOffset)

\* C22: formatDateTime followed by convertToISOString is a round trip on the
\* clock time: for every hour 0..23 and minute 0..59 of the drawn days the
\* formatted local text shows the year, month, day, hour and minute of the
\* date, convertToISOString reads them back (its result is the UTC text of
\* that same local clock time), and hours 0 and 12, and only they, are
\* written "12", hour 0 with AM and hour 12 with PM.
C22_FormatParseRoundTrip ==
    ReturnedFrom("convertToISOString") =>
        LET local == fnRet.value.local
            iso == fnRet.value.iso
        IN  /\ Len(local) = 19
            /\ ClockOfLocal(local) = fnArgs.date
            /\ iso # Null
            /\ Len(iso) = 24
            /\ IsClockTime(ClockOfISO(iso))
            /\ LocalOfUTC(ClockOfISO(iso)) = fnArgs.date
            /\ (SubSeq(local, 12, 13) = <<"1", "2">>) <=> (fnArgs.date.hours \in {0, 12})
            /\ fnArgs.date.hours = 0 => SubSeq(local, 18, 19) = S_AM
            /\ fnArgs.date.hours = 12 => SubSeq(local, 18, 19) = S_PM

\* C22 happens: seven minutes past midnight is written "12:07 AM" and read
\* back as hour 0 of the same day.
C22_Witness ==
    /\ ReturnedFrom("convertToISOString")
    /\ fnArgs.date = [year |-> 2024, month |-> 2, day |-> 29, hours |-> 0, minutes |-> 7]
    /\ SubSeq(fnRet.value.local, 12, 19) = <<"1", "2", ":", "0", "7", " ", "A", "M">>
    /\ LocalOfUTC(ClockOfISO(fnRet.value.iso)).hours = 0

\* The position of the first c in s, Len(s) + 1 when there is none.
FirstIndexOf(s, c) ==
    IF \E p \in 1..Len(s) : s[p] = c
    THEN CHOOSE p \in 1..Len(s) : s[p] = c /\ \A q \in 1..(p - 1) : s[q] # c
    ELSE Len(s) + 1

\* s from its first to its last character that is no blank.
Stripped(s) ==
    LET inked == {p \in 1..Len(s) : s[p] # " "}
    IN  IF inked = {} THEN <<>>
        ELSE SubSeq(s, CHOOSE p \in inked : \A q \in inked : p <= q,
                       CHOOSE p \in inked : \A q \in inked : p >= q)

S_Austin == <<"A", "u", "s", "t", "i", "n">>
S_TX == <<"T", "X">>

\* C23: parseLocation keeps what stands before the first bullet; when that
\* holds a comma, city is the text before the first comma and state the text
\* between the first comma and the second (or the end), both without
\* surrounding blanks; without a comma city is the whole kept text without
\* surrounding blanks and state is empty.  "Austin, TX (bullet) Remote" gives
\* Austin and TX, "Remote" gives Remote and the empty state.
C23_ParseLocation ==
    ReturnedFrom("parseLocation") =>
        LET location == fnArgs.locationString
            kept == SubSeq(location, 1, FirstIndexOf(location, Bullet) - 1)
            c1 == FirstIndexOf(kept, ",")
            rest == SubSeq(kept, c1 + 1, Len(kept))
            c2 == FirstIndexOf(rest, ",")
        IN  /\ IF c1 <= Len(kept)
               THEN /\ fnRet.value.city = Stripped(SubSeq(kept, 1, c1 - 1))
                    /\ fnRet.value.state = Stripped(SubSeq(rest, 1, c2 - 1))
               ELSE /\ fnRet.value.city = Stripped(kept)
                    /\ fnRet.value.state = <<>>
            /\ location = S_AustinTXRemote
                   => fnRet.value = [city |-> S_Austin, state |-> S_TX]
            /\ location = S_Remote => fnRet.value = [city |-> S_Remote, state |-> <<>>]

\* C23 happens: a location with an addendum after the bullet and a comma
\* before it is parsed into its city and state.
C23_Witness ==
    /\ ReturnedFrom("parseLocation")
    /\ fnArgs.locationString = S_AustinTXRemote
    /\ fnRet.value.city = S_Austin
    /\ fnRet.value.state = S_TX

\* The window the README announces: "Only jobs posted within last 4 hours".
ReadmeHours == 4

\* The records the validator judges by their posting time alone: a token in
\* hours was assigned, and neither the structure nor the keywords stand in
\* the way.
JudgedByHours ==
    /\ ReturnedFrom("isValidJobData")
    /\ fnArgs.jobData.found_time # <<>>
    /\ lastTimeString = fnArgs.jobData.found_time
    /\ IsTimeToken(fnArgs.jobData.found_time)
    /\ RegexMatch(toLowerCase(fnArgs.jobData.found_time), <<W_hour, W_minute, W_day>>).unit
           = W_hour
    /\ ~StructuralDefect(fnArgs.jobData)
    /\ KeywordAllowed(fnArgs.jobData, fnArgs.service)

\* C24: time filtering keeps only jobs posted within the last 4 hours: a job
\* posted "N hours ago" is accepted by the validator exactly when N <= 4.
C24_FourHourWindow ==
    JudgedByHours => (fnRet.value <=> HoursOfToken(fnArgs.jobData.found_time) <= ReadmeHours)

\* C24 fails: with MAX_HOURS unset the validator accepts a job posted
\* "5 Hours ago".
C24_FiveHoursAccepted ==
    /\ JudgedByHours
    /\ ~envMaxHours.set
    /\ fnArgs.jobData.found_time = T_5hours
    /\ fnRet.value

\* The cursor points into the pool or just behind its last token.
CursorInRange == 0 <= timeIndex /\ timeIndex <= Len(availableTimes)

\* One step of the processing of a document: the pool stays, the cursor stays
\* or moves on by one, and a container that was given the fallback token
\* found the cursor behind the last token and left it there.
CursorStep ==
    pc = "loop" =>
        /\ availableTimes' = availableTimes
        /\ timeIndex' = timeIndex \/ timeIndex' = timeIndex + 1
        /\ Len(extracted') = Len(extracted) + 1 =>
              LET e == extracted'[Len(extracted')]
              IN  /\ (~e.error /\ e.jobData.found_time = ThreeHoursAgo)
                         => (timeIndex = Len(availableTimes) /\ timeIndex' = timeIndex)
                  /\ (~e.error /\ e.jobData.found_time # ThreeHoursAgo)
                         => timeIndex' = timeIndex + 1

\* C25: the token cursor only moves forward and stays in range: at every
\* moment 0 <= _timeIndex <= length of the pool, and while one document is
\* processed each step leaves the pool alone and changes the cursor by 0 or
\* +1; the fallback token is used only with the cursor at the pool length,
\* and leaves it there.
C25_CursorOnlyForward == [] CursorInRange /\ [][CursorStep]_vars

\* C25 happens: the cursor went through a pool of two tokens, and a third
\* container got the fallback with the cursor left at 2.
C25_Witness ==
    /\ pc = "loop"
    /\ Len(availableTimes) = 2
    /\ timeIndex = 2
    /\ Len(extracted) = 3
    /\ \A k \in 1..3 : ~extracted[k].error
    /\ FoundTime(1) = availableTimes[1]
    /\ FoundTime(2) = availableTimes[2]
    /\ FoundTime(3) = ThreeHoursAgo

\* The records of the containers that passed validation, in document order.
RECURSIVE ValidJobs(_)
ValidJobs(containers) ==
    IF containers = <<>> THEN <<>>
    ELSE LET front == ValidJobs(SubSeq(containers, 1, Len(containers) - 1))
             last == containers[Len(containers)]
         IN  IF last.valid THEN Append(front, last.jobData) ELSE front

\* C26: a container whose field extraction raises fails validation and is not
\* among the records; the loop goes on to every other container of the
\* document (up to CONFIG.maxJobs), and the records returned are exactly the
\* valid containers in document order, those after a failing one included.
C26_FailingContainerSkipped ==
    InDocument =>
        /\ \A k \in 1..Len(extracted) : extracted[k].error => ~extracted[k].valid
        /\ Len(extracted) = elem
        /\ serviceJobs = ValidJobs(extracted)
        /\ \A j \in 1..Len(serviceJobs) :
              \A k \in 1..Len(extracted) : extracted[k].error => serviceJobs[j] # extracted[k].jobData
        /\ pc = "parsed" =>
              /\ Len(extracted) = Min(Len(jobElements), CONFIG_maxJobs)
              /\ result.jobs = ValidJobs(extracted)

\* C26 happens: the first container raised, the second and third were still
\* processed, and the third is returned.
C26_Witness ==
    /\ pc = "parsed"
    /\ Len(extracted) = 3
    /\ extracted[1].error
    /\ ~extracted[2].valid
    /\ extracted[3].valid
    /\ result.jobs = <<extracted[3].jobData>>

\* The token at the cursor when the k-th container was processed.
TokenDueTo(k) ==
    IF AssignedBefore(k) < Len(html.times) THEN html.times[AssignedBefore(k) + 1]
    ELSE ThreeHoursAgo

\* C30: a container whose field extraction raises before the time assignment
\* takes nothing from the pool: the pool is the document's, the cursor counts
\* only the containers that reached the assignment, the failed container has
\* no posted_date and no found_time and fails validation, and the container
\* after it is given the token that was due to the failed one.
C30_FailedContainerTakesNoToken ==
    InDocument =>
        /\ availableTimes = html.times
        /\ timeIndex = Min(AssignedBefore(Len(extracted) + 1), Len(html.times))
        /\ \A k \in 1..Len(extracted) :
              extracted[k].error =>
                  /\ extracted[k].jobData.posted_date = <<>>
                  /\ FoundTime(k) = <<>>
                  /\ ~extracted[k].valid
                  /\ (k < Len(extracted) /\ ~extracted[k + 1].error)
                         => FoundTime(k + 1) = TokenDueTo(k)

\* C30 happens: the first container raised, and the second was given the
\* first token of a pool of two different tokens.
C30_Witness ==
    /\ pc = "loop"
    /\ Len(extracted) = 2
    /\ Len(html.times) = 2 /\ html.times[1] # html.times[2]
    /\ extracted[1].error
    /\ ~extracted[2].error
    /\ FoundTime(2) = html.times[1]
    /\ timeIndex = 1

\* Was the message posted / the sink written during the run so far?
Posted(about) == \E k \in 1..Len(notifications) : notifications[k].about = about
SavedTo(sink) == \E k \in 1..Len(saved) : saved[k].sink = sink

\* C27: no failure while handling one service is fatal to the run: whether
\* parsing, the store insert or saveResults raises for a service, run goes on
\* to the services after it (every service gets its summary entry), reaches
\* the combined save and, unless the combined save itself fails, posts the
\* end-of-run summary.
C27_NoServiceFailureFatal ==
    pc = "done" =>
        /\ runError \in {"", "saveCombinedResults"}
        /\ Len(perServiceSummary) = Len(services)
        /\ allJobs # <<>> => SavedTo(S_all_services)
        /\ runError = "" => Posted("ranAt")

\* C27 fails: saveResults raised for the first service after its JSON file was
\* written; the run ended without the second service, without the combined
\* save and without the summary.
C27_RunEndedBySaveResults ==
    /\ pc = "done"
    /\ runError = "saveResults"
    /\ svc = 1
    /\ Len(saved) = 1 /\ saved[1].sink = services[1].name /\ saved[1].files = <<"json">>
    /\ perServiceSummary = <<>>
    /\ allJobs # <<>>
    /\ ~SavedTo(S_all_services)
    /\ ~Posted("ranAt")

\* The part of C27 the code keeps: a run that no exception ended has a summary
\* entry for every service and posted the header of its summary.
C27_CompletedRun ==
    (pc = "done" /\ runError = "") =>
        /\ Len(perServiceSummary) = Len(services)
        /\ Posted("ranAt")

\* C28: a whole run posts only two notifications, the run-time header and the
\* per-service counts, whatever the services yield.
C28_OnlyTwoNotifications == Len(notifications) <= 2

\* C28 fails: the run posted the high-priority Spark alert, then the header
\* and the counts.
C28_ThreeNotifications ==
    /\ pc = "done"
    /\ Len(notifications) = 3
    /\ notifications[1].about = "spark" /\ notifications[1].priority = "high"
    /\ notifications[2] = SummaryHeader
    /\ notifications[3] = SummaryCounts(perServiceSummary)

\* The part of C28 the code keeps: at most two messages of low priority, the
\* header before the counts, and at most one Spark alert.
C28_TwoSummaryMessages ==
    /\ Cardinality({k \in 1..Len(notifications) : notifications[k].priority = "low"}) <= 2
    /\ Cardinality({k \in 1..Len(notifications) : notifications[k].about = "spark"}) <= 1
    /\ Posted("counts") => Posted("ranAt")

\* C29: at most CONFIG.maxJobs containers of a document are processed: the
\* loop never extracts, validates or gives a token to more than 100
\* containers, the records returned are at most min(totalFound, 100), and
\* totalFound still counts every container of the winning group; in a document
\* of more than 100 containers and tokens the cursor stops at 100.
C29_AtMostMaxJobsProcessed ==
    InDocument =>
        /\ elem <= CONFIG_maxJobs
        /\ Len(extracted) <= Min(Len(jobElements), CONFIG_maxJobs)
        /\ Len(serviceJobs) <= Len(extracted)
        /\ timeIndex <= CONFIG_maxJobs
        /\ pc = "parsed" =>
              /\ Len(result.jobs) <= Min(result.totalFound, CONFIG_maxJobs)
              /\ result.totalFound = Len(jobElements)
              /\ Len(extracted) = Min(Len(jobElements), CONFIG_maxJobs)
              /\ (Len(jobElements) > CONFIG_maxJobs /\ Len(html.times) > CONFIG_maxJobs)
                     => timeIndex = CONFIG_maxJobs

\* C29 happens: of 101 containers with 101 tokens, 100 were processed and
\* returned, the 101st token was left in the pool, and totalFound is 101.
C29_Witness ==
    /\ pc = "parsed"
    /\ Len(jobElements) = CONFIG_maxJobs + 1
    /\ Len(availableTimes) = CONFIG_maxJobs + 1
    /\ Len(extracted) = CONFIG_maxJobs
    /\ timeIndex = CONFIG_maxJobs
    /\ Len(result.jobs) = CONFIG_maxJobs
    /\ result.totalFound = CONFIG_maxJobs + 1

====
